---- MODULE Spec2Model ----
(***************************************************************************)
(* Verification model of the SVG panel generator: the grid layout engine   *)
(* (pathUtils.ts), the document parser (svgParse), the layer transform and *)
(* the panel composer (exportPanels.ts) and the generator page             *)
(* (GeneratorPage.tsx).  Lengths are whole millimetres.                    *)
(***************************************************************************)
EXTENDS Integers, Sequences, FiniteSets, TLC

VARIABLES
  gridSettings,      \* computeGridLayout: the PanelLayoutSettings argument
  gridLayout,        \* computeGridLayout: the GridLayout it gives
  gridPhase,         \* "input" before the call, "done" after it
  countArgs,         \* computePanelCount: <<itemCount, capacityPerPanel>>
  countResult,       \* computePanelCount: the number returned
  countPhase,        \* "input" before the call, "done" after it
  parseDoc,          \* parseSvgString: the markup it is given
  parseResult,       \* parseSvgString: the ParsedSvg returned, or the error thrown
  parsePhase,        \* "input" before the call, "done" after it
  procDoc,           \* processLayersForPanel: the markup (svgText) it is given
  procLayers,        \* processLayersForPanel: the layers argument
  procResult,        \* processLayersForPanel: the content returned
  procPhase,         \* "input" before the call, "done" after it
  buildSelected,     \* buildPanelSvgs: the selected files, in order
  buildSettings,     \* buildPanelSvgs: the settings argument
  buildFileMap,      \* buildPanelSvgs: the fileMap argument
  buildResult,       \* buildPanelSvgs: what the promise settles with
  buildPhase,        \* "input" before the call, "done" after it
  scan,              \* GeneratorPage: the scan result, or null
  isScanning,
  scanError,
  selectedPaths,
  panelWidthMm,      \* the number read from panelWidthMmRaw
  panelHeightMm,     \* the number read from panelHeightMmRaw
  isGenerating,
  genError,
  generatedPanels,
  lastGenerationKey,
  isExporting,
  exportMessage,
  showExportModal,
  pendingExportPanels,
  showPreviewModal,
  scanCall,          \* the scan awaited by handleDrop
  generateCall,      \* the buildPanelSvgs call awaited by generatePanels
  exportCall,        \* the buildPanelSvgs call awaited by exportPanels
  downloadCall,      \* the downloadPanelSvgs call awaited by confirmExport
  dropCount,         \* the number of drops so far
  colorA,            \* normalizeColorToHex and colorsMatch: the first colour token
  colorB,            \* colorsMatch: the second colour token
  colorNormalized,   \* normalizeColorToHex: the text returned
  colorMatched,      \* colorsMatch: the boolean returned
  colorPhase,        \* "input" before a call, "normalized" or "matched" after it
  backerDoc,         \* processLayersForPanel with options: the markup
  backerLayers,      \* processLayersForPanel with options: the layers argument
  backerOptions,     \* processLayersForPanel with options: the options argument
  backerResult,      \* processLayersForPanel with options: the content returned
  backerPhase,       \* "input" before the call, "done" after it
  runSelected,       \* item loop of buildPanelSvgs: the selected argument
  runFileMap,        \* item loop of buildPanelSvgs: the fileMap argument
  runSettings,       \* item loop of buildPanelSvgs: the processing settings
  runCache,          \* cache: path -> the parsed entry
  runIndex,          \* the number of items the loops are done with
  runWork,           \* the reads, parses and processing calls so far, per path
  runPlaced,         \* the groups pushed so far, one per item
  runPhase,          \* "running", then "done" (returned) or "threw" (rejected)
  fitText,           \* calculateTextFit: the text argument, by its length
  fitMetrics,        \* what the browser measures for the text at size 100
  fitBox,            \* calculateTextFit: the box argument
  fitResult,         \* calculateTextFit: the result
  fitPhase,          \* "input" before the call, "done" after it
  holeNodes,         \* hole removal: the elements of the imported document
  holeResult,        \* hole removal: the elements after the compound-path pass
  holePhase,         \* "input" before the pass, "done" after it
  stepDoc,           \* steps of processLayersForPanel: the parsed markup
  stepLayers,        \* steps of processLayersForPanel: the layers argument
  stepOptions,       \* steps of processLayersForPanel: the options argument
  stepNodes,         \* the elements of the imported svg as they are now
  stepStyled,        \* the style block and the class and style attributes are still there
  stepCut,           \* savedCutLineBbox
  stepBacker,        \* the backer circle appended, if any
  stepCover,         \* the hole cover appended, if any
  stepLog,           \* the steps done so far, in order
  stepPc,            \* the step that is next, "done" after the return
  composeFile,       \* composer: the file of the item
  composeCell,       \* composer: the placement of the item
  composeSettings,   \* composer: the settings read for the cell
  composeResult,     \* composer: the art box and the transform of the item
  composePhase       \* "ready" before the item is composed, "done" after

gridVars == <<gridSettings, gridLayout, gridPhase, countArgs, countResult, countPhase>>
parseVars == <<parseDoc, parseResult, parsePhase>>
procVars == <<procDoc, procLayers, procResult, procPhase>>

buildVars == <<buildSelected, buildSettings, buildFileMap, buildResult, buildPhase>>

pageVars ==
  <<scan, isScanning, scanError, selectedPaths, panelWidthMm, panelHeightMm, isGenerating,
    genError, generatedPanels, lastGenerationKey, isExporting, exportMessage,
    showExportModal, pendingExportPanels, showPreviewModal, scanCall, generateCall,
    exportCall, downloadCall, dropCount>>

colorVars == <<colorA, colorB, colorNormalized, colorMatched, colorPhase>>

backerVars == <<backerDoc, backerLayers, backerOptions, backerResult, backerPhase>>

runVars ==
  <<runSelected, runFileMap, runSettings, runCache, runIndex, runWork, runPlaced, runPhase>>

fitVars ==
  <<fitText, fitMetrics, fitBox, fitResult, fitPhase>>

holeVars ==
  <<holeNodes, holeResult, holePhase>>

stepVars ==
  <<stepDoc, stepLayers, stepOptions, stepNodes, stepStyled, stepCut, stepBacker, stepCover,
    stepLog, stepPc>>

composeVars ==
  <<composeFile, composeCell, composeSettings, composeResult, composePhase>>

vars ==
  <<gridVars, parseVars, procVars, buildVars, pageVars, colorVars, backerVars, runVars,
    fitVars, holeVars, stepVars, composeVars>>

otherThanGrid ==
  <<parseVars, procVars, buildVars, pageVars, colorVars, backerVars, runVars, fitVars,
    holeVars, stepVars, composeVars>>
otherThanParse ==
  <<gridVars, procVars, buildVars, pageVars, colorVars, backerVars, runVars, fitVars, holeVars,
    stepVars, composeVars>>
otherThanProc ==
  <<gridVars, parseVars, buildVars, pageVars, colorVars, backerVars, runVars, fitVars,
    holeVars, stepVars, composeVars>>
otherThanBuild ==
  <<gridVars, parseVars, procVars, pageVars, colorVars, backerVars, runVars, fitVars, holeVars,
    stepVars, composeVars>>
otherThanPage ==
  <<gridVars, parseVars, procVars, buildVars, colorVars, backerVars, runVars, fitVars,
    holeVars, stepVars, composeVars>>
otherThanColor ==
  <<gridVars, parseVars, procVars, buildVars, pageVars, backerVars, runVars, fitVars, holeVars,
    stepVars, composeVars>>
otherThanBacker ==
  <<gridVars, parseVars, procVars, buildVars, pageVars, colorVars, runVars, fitVars, holeVars,
    stepVars, composeVars>>
otherThanRun ==
  <<gridVars, parseVars, procVars, buildVars, pageVars, colorVars, backerVars, fitVars,
    holeVars, stepVars, composeVars>>
otherThanFit ==
  <<gridVars, parseVars, procVars, buildVars, pageVars, colorVars, backerVars, runVars,
    holeVars, stepVars, composeVars>>
otherThanHole ==
  <<gridVars, parseVars, procVars, buildVars, pageVars, colorVars, backerVars, runVars,
    fitVars, stepVars, composeVars>>
otherThanStep ==
  <<gridVars, parseVars, procVars, buildVars, pageVars, colorVars, backerVars, runVars,
    fitVars, holeVars, composeVars>>
otherThanCompose ==
  <<gridVars, parseVars, procVars, buildVars, pageVars, colorVars, backerVars, runVars,
    fitVars, holeVars, stepVars>>

(***************************************************************************)
(* Grid layout engine                                                      *)
(***************************************************************************)

\* Math.floor(n / d) on whole numbers, d # 0.
FloorDiv(n, d) == IF d > 0 THEN n \div d ELSE (0 - n) \div (0 - d)

\* Math.ceil(n / d) on whole numbers, d # 0.
CeilDiv(n, d) == 0 - FloorDiv(0 - n, d)

\* The kind of the IEEE quotient n / d: finite unless d = 0.
QuotientKind(n, d) ==
  IF d # 0 THEN "finite"
  ELSE IF n > 0 THEN "Infinity"
  ELSE IF n < 0 THEN "-Infinity"
  ELSE "NaN"

\* The kind of the IEEE product of two numbers of the given kinds and values.
ProductKind(ka, a, kb, b) ==
  IF ka = "NaN" \/ kb = "NaN" THEN "NaN"
  ELSE IF ka = "finite" /\ kb = "finite" THEN "finite"
  ELSE IF (ka = "finite" /\ a = 0) \/ (kb = "finite" /\ b = 0) THEN "NaN"
  ELSE LET na == (ka = "-Infinity") \/ (ka = "finite" /\ a < 0)
           nb == (kb = "-Infinity") \/ (kb = "finite" /\ b < 0)
       IN IF na = nb THEN "Infinity" ELSE "-Infinity"

\* A number of the given kind and value is > 0.
IsPositive(k, v) == (k = "Infinity") \/ (k = "finite" /\ v > 0)

\* The placements pushed by the two nested loops, row-major.
Placements(cols, rows, cellSizeMm, marginMm, gutterMm) ==
  [k \in 1..(cols * rows) |->
     LET r == (k - 1) \div cols
         c == (k - 1) % cols
     IN [indexInPanel |-> r * cols + c,
         x |-> marginMm + c * (cellSizeMm + gutterMm),
         y |-> marginMm + r * (cellSizeMm + gutterMm),
         size |-> cellSizeMm]]

\* computeGridLayout with the gutter left out of the numerators.
computeGridLayout_NoGutter(settings) ==
  LET usableW == settings.panelWidthMm - settings.marginMm * 2
      usableH == settings.panelHeightMm - settings.marginMm * 2
      step == settings.cellSizeMm + settings.gutterMm
      colsKind == QuotientKind(usableW, step)
      rowsKind == QuotientKind(usableH, step)
      cols == IF colsKind = "finite" THEN FloorDiv(usableW, step) ELSE 0
      rows == IF rowsKind = "finite" THEN FloorDiv(usableH, step) ELSE 0
      prodKind == ProductKind(colsKind, cols, rowsKind, rows)
      capKind == IF prodKind = "-Infinity" THEN "finite" ELSE prodKind
      capacityPerPanel ==
        IF prodKind = "finite" THEN (IF cols * rows > 0 THEN cols * rows ELSE 0) ELSE 0
      loops == IsPositive(colsKind, cols) /\ IsPositive(rowsKind, rows)
  IN [returns |-> ~(loops /\ (colsKind = "Infinity" \/ rowsKind = "Infinity")),
      colsKind |-> colsKind, rowsKind |-> rowsKind, capKind |-> capKind,
      cols |-> cols, rows |-> rows, capacityPerPanel |-> capacityPerPanel,
      placements |-> IF loops /\ colsKind = "finite" /\ rowsKind = "finite"
                     THEN Placements(cols, rows, settings.cellSizeMm,
                                     settings.marginMm, settings.gutterMm)
                     ELSE << >>]

computeGridLayout(settings) ==
  LET usableW == settings.panelWidthMm - settings.marginMm * 2
      usableH == settings.panelHeightMm - settings.marginMm * 2
      step == settings.cellSizeMm + settings.gutterMm
      colsKind == QuotientKind(usableW + settings.gutterMm, step)
      rowsKind == QuotientKind(usableH + settings.gutterMm, step)
      cols == IF colsKind = "finite" THEN FloorDiv(usableW + settings.gutterMm, step) ELSE 0
      rows == IF rowsKind = "finite" THEN FloorDiv(usableH + settings.gutterMm, step) ELSE 0
      prodKind == ProductKind(colsKind, cols, rowsKind, rows)
      \* Math.max(0, p): NaN stays NaN, -Infinity gives 0
      capKind == IF prodKind = "-Infinity" THEN "finite" ELSE prodKind
      capacityPerPanel ==
        IF prodKind = "finite" THEN (IF cols * rows > 0 THEN cols * rows ELSE 0) ELSE 0
      loops == IsPositive(colsKind, cols) /\ IsPositive(rowsKind, rows)
  IN [returns |-> ~(loops /\ (colsKind = "Infinity" \/ rowsKind = "Infinity")),
      colsKind |-> colsKind, rowsKind |-> rowsKind, capKind |-> capKind,
      cols |-> cols, rows |-> rows, capacityPerPanel |-> capacityPerPanel,
      placements |-> IF loops /\ colsKind = "finite" /\ rowsKind = "finite"
                     THEN Placements(cols, rows, settings.cellSizeMm,
                                     settings.marginMm, settings.gutterMm)
                     ELSE << >>]

\* computePanelCount rounding down instead of up.
computePanelCount_Floor(itemCount, capacityPerPanel) ==
  IF capacityPerPanel <= 0 THEN 0 ELSE FloorDiv(itemCount, capacityPerPanel)

computePanelCount(itemCount, capacityPerPanel) ==
  IF capacityPerPanel <= 0 THEN 0 ELSE CeilDiv(itemCount, capacityPerPanel)

(***************************************************************************)
(* Document parser                                                         *)
(***************************************************************************)

\* One piece of a viewBox attribute split on /[\s,]+/: a number, the empty
\* string (a leading or trailing separator) or text that is no number.
NumTok(v) == [kind |-> "num", v |-> v]
EmptyTok == [kind |-> "empty", v |-> 0]
NanTok == [kind |-> "nan", v |-> 0]

\* Number(piece) is finite.
TokIsFinite(t) == t.kind \in {"num", "empty"}

\* Number(piece): Number("") is 0.
TokNumber(t) == IF t.kind = "num" THEN t.v ELSE 0

\* A viewBox attribute: absent, or the pieces of its text; <<EmptyTok>> is "".
AbsentViewBox == [present |-> FALSE, parts |-> << >>]
ViewBoxText(parts) == [present |-> TRUE, parts |-> parts]

\* if (viewBox): the attribute is there and is not the empty string.
ViewBoxTruthy(vb) == vb.present /\ vb.parts # <<EmptyTok>>

\* A width or height attribute: absent, "", text without digits, or a number
\* followed by a unit suffix.
AbsentDim == [kind |-> "absent", value |-> 0, unit |-> ""]
EmptyDim == [kind |-> "empty", value |-> 0, unit |-> ""]
WordDim == [kind |-> "word", value |-> 0, unit |-> ""]
NumberDim(v, u) == [kind |-> "number", value |-> v, unit |-> u]

NoNumber == [isNull |-> TRUE, n |-> 0]
SomeNumber(n) == [isNull |-> FALSE, n |-> n]

\* parseNumber: null for a missing or empty attribute; otherwise the text with
\* everything but digits, sign and point removed goes through parseFloat.
parseNumber(a) ==
  IF a.kind \in {"absent", "empty"} THEN NoNumber
  ELSE IF a.kind = "number" THEN SomeNumber(a.value)
  ELSE NoNumber

\* if (wAttr): a number that is neither null nor 0.
NumberTruthy(n) == ~n.isNull /\ n.n # 0

ParsedOk(x, y, w, h) ==
  [threw |-> FALSE, error |-> "", viewBox |-> [x |-> x, y |-> y, width |-> w, height |-> h]]
ParseThrew(msg) ==
  [threw |-> TRUE, error |-> msg, viewBox |-> [x |-> 0, y |-> 0, width |-> 0, height |-> 0]]

parseSvgString(doc) ==
  IF ~doc.wellFormed THEN ParseThrew("Invalid SVG: parse error")
  ELSE IF ~doc.hasSvg THEN ParseThrew("Invalid SVG: missing <svg>")
  ELSE IF ViewBoxTruthy(doc.viewBox)
    THEN IF Len(doc.viewBox.parts) = 4 /\ \A i \in 1..4 : TokIsFinite(doc.viewBox.parts[i])
         THEN ParsedOk(TokNumber(doc.viewBox.parts[1]), TokNumber(doc.viewBox.parts[2]),
                       TokNumber(doc.viewBox.parts[3]), TokNumber(doc.viewBox.parts[4]))
         ELSE ParsedOk(0, 0, 100, 100)
  ELSE LET wAttr == parseNumber(doc.width)
           hAttr == parseNumber(doc.height)
       IN ParsedOk(0, 0, IF NumberTruthy(wAttr) THEN wAttr.n ELSE 100,
                         IF NumberTruthy(hAttr) THEN hAttr.n ELSE 100)

\* The markup the parser is given.
MaxViewBoxParts == 5
ViewBoxToks == {NumTok(0), NumTok(40), EmptyTok, NanTok}
RECURSIVE TokSeqs(_)
TokSeqs(n) ==
  IF n = 0 THEN {<< >>}
  ELSE {Append(q, t) : q \in TokSeqs(n - 1), t \in ViewBoxToks}
ViewBoxAttrs ==
  {AbsentViewBox} \cup {ViewBoxText(q) : q \in UNION {TokSeqs(n) : n \in 1..MaxViewBoxParts}}
DimAttrs == {AbsentDim, EmptyDim, WordDim, NumberDim(0, ""), NumberDim(30, "mm"), NumberDim(50, "")}
\* Markup with a root svg element under every viewBox, width and height, and
\* markup that does not parse or has no svg element.
ParseInputs ==
  {[wellFormed |-> TRUE, hasSvg |-> TRUE, viewBox |-> vb, width |-> w, height |-> h] :
     vb \in ViewBoxAttrs, w \in DimAttrs, h \in DimAttrs}
  \cup
  {[wellFormed |-> wf, hasSvg |-> hs, viewBox |-> AbsentViewBox, width |-> w, height |-> h] :
     wf \in BOOLEAN, hs \in BOOLEAN, w \in DimAttrs, h \in DimAttrs}

ParseIdle ==
  /\ parseDoc = [wellFormed |-> TRUE, hasSvg |-> TRUE, viewBox |-> AbsentViewBox,
                 width |-> AbsentDim, height |-> AbsentDim]
  /\ parseResult = ParsedOk(0, 0, 0, 0)
  /\ parsePhase = "idle"

\* A caller holds the markup of a parseSvgString call.
ParseInit ==
  /\ parseDoc \in ParseInputs
  /\ parseResult = ParsedOk(0, 0, 0, 0)
  /\ parsePhase = "input"

\* parseSvgString(parseDoc) runs.
ParseCall ==
  /\ parsePhase = "input"
  /\ parseResult' = parseSvgString(parseDoc)
  /\ parsePhase' = "done"
  /\ UNCHANGED parseDoc
  /\ UNCHANGED otherThanParse

(***************************************************************************)
(* Colours                                                                 *)
(***************************************************************************)

\* A colour token as written in markup: #rrggbb, #rgb, a name (or any other
\* text), rgb(r,g,b), or no value at all (null).  upper: written in capitals.
Hex6(r, g, b) == [kind |-> "hex6", r |-> r, g |-> g, b |-> b, text |-> "", upper |-> FALSE]
Hex6Upper(r, g, b) == [kind |-> "hex6", r |-> r, g |-> g, b |-> b, text |-> "", upper |-> TRUE]
Hex3(r, g, b) == [kind |-> "hex3", r |-> r, g |-> g, b |-> b, text |-> "", upper |-> FALSE]
Rgb(r, g, b) == [kind |-> "rgb", r |-> r, g |-> g, b |-> b, text |-> "", upper |-> FALSE]
Named(n) == [kind |-> "name", r |-> 0, g |-> 0, b |-> 0, text |-> n, upper |-> FALSE]
NamedUpper(n) == [kind |-> "name", r |-> 0, g |-> 0, b |-> 0, text |-> n, upper |-> TRUE]
NoColor == [kind |-> "absent", r |-> 0, g |-> 0, b |-> 0, text |-> "", upper |-> FALSE]

\* if (colors.fill): the value is there.
HasValue(c) == c.kind # "absent"

\* c.toLowerCase() === 'none'
IsNoneText(c) == c.kind = "name" /\ c.text = "none"

\* The namedColors table.
NamedColorNames == {"black", "white", "red", "green", "blue", "lime", "none", "transparent"}
namedColors(n) ==
  CASE n = "black" -> Hex6(0, 0, 0)
    [] n = "white" -> Hex6(255, 255, 255)
    [] n = "red" -> Hex6(255, 0, 0)
    [] n = "green" -> Hex6(0, 255, 0)
    [] n = "blue" -> Hex6(0, 0, 255)
    [] n = "lime" -> Hex6(0, 255, 0)
    [] n = "none" -> Named("none")
    [] n = "transparent" -> Named("none")

\* Normalisation that leaves the case of a 6-digit hex colour as written.
normalizeColorToHex_KeepCase(color) ==
  CASE color.kind = "hex3" -> Hex6(color.r * 17, color.g * 17, color.b * 17)
    [] color.kind = "hex6" -> color
    [] color.kind = "name" ->
         IF color.text \in NamedColorNames THEN namedColors(color.text) ELSE Named(color.text)
    [] color.kind = "rgb" -> Hex6(color.r, color.g, color.b)
    [] OTHER -> color

normalizeColorToHex(color) ==
  CASE color.kind = "hex3" -> Hex6(color.r * 17, color.g * 17, color.b * 17)
    [] color.kind = "hex6" -> Hex6(color.r, color.g, color.b)
    [] color.kind = "name" ->
         IF color.text \in NamedColorNames THEN namedColors(color.text) ELSE Named(color.text)
    [] color.kind = "rgb" -> Hex6(color.r, color.g, color.b)
    [] OTHER -> color

Abs(n) == IF n < 0 THEN 0 - n ELSE n

\* The comparison with a tolerance of 11.
NormalizedMatch_Wide(c1, c2) ==
  IF c1 = c2 THEN TRUE
  ELSE IF c1.kind # "hex6" \/ c2.kind # "hex6" THEN FALSE
  ELSE /\ Abs(c1.r - c2.r) <= 11
       /\ Abs(c1.g - c2.g) <= 11
       /\ Abs(c1.b - c2.b) <= 11

\* The comparison of two normalised colours: equal text, or both #rrggbb and
\* every channel within the tolerance of 10.
NormalizedMatch(c1, c2) ==
  IF c1 = c2 THEN TRUE
  ELSE IF c1.kind # "hex6" \/ c2.kind # "hex6" THEN FALSE
  ELSE /\ Abs(c1.r - c2.r) <= 10
       /\ Abs(c1.g - c2.g) <= 10
       /\ Abs(c1.b - c2.b) <= 10

colorsMatch(color1, color2) ==
  NormalizedMatch(normalizeColorToHex(color1), normalizeColorToHex(color2))

(***************************************************************************)
(* Style resolution                                                        *)
(***************************************************************************)

\* The three paint properties of a style rule, an inline style or the direct
\* attributes; strokeWidth "" is a missing value.
Paint(f, s, w) == [fill |-> f, stroke |-> s, strokeWidth |-> w]
NoPaint == Paint(NoColor, NoColor, "")

\* parseSvgStyleBlock: the rule stored under a class name is the last one of
\* the style block with that name; FALSE when there is none.
StyleRuleIndex(styleRules, cls) ==
  LET hits == {i \in 1..Len(styleRules) : styleRules[i].className = cls}
  IN IF hits = {} THEN 0 ELSE CHOOSE i \in hits : \A j \in hits : j <= i

RECURSIVE ClassPaint(_, _, _, _)
\* The loop over the classes of the class attribute: later classes overwrite.
ClassPaint(classes, k, styleRules, acc) ==
  IF k > Len(classes) THEN acc
  ELSE LET i == StyleRuleIndex(styleRules, classes[k])
           rule == styleRules[i]
           next == IF i = 0 THEN acc
                   ELSE Paint(IF HasValue(rule.fill) THEN rule.fill ELSE acc.fill,
                              IF HasValue(rule.stroke) THEN rule.stroke ELSE acc.stroke,
                              IF rule.strokeWidth # "" THEN rule.strokeWidth ELSE acc.strokeWidth)
       IN ClassPaint(classes, k + 1, styleRules, next)

\* The inline style overrides what the classes gave.
StylePaint(el, fromClass) ==
  Paint(IF HasValue(el.style.fill) THEN el.style.fill ELSE fromClass.fill,
        IF HasValue(el.style.stroke) THEN el.style.stroke ELSE fromClass.stroke,
        IF el.style.strokeWidth # "" THEN el.style.strokeWidth ELSE fromClass.strokeWidth)

\* The direct attributes fill in what is still unset.
AttrPaint(el, fromStyle) ==
  Paint(IF ~HasValue(fromStyle.fill) /\ HasValue(el.attr.fill) THEN el.attr.fill
        ELSE fromStyle.fill,
        IF ~HasValue(fromStyle.stroke) /\ HasValue(el.attr.stroke) THEN el.attr.stroke
        ELSE fromStyle.stroke,
        IF fromStyle.strokeWidth = "" /\ el.attr.strokeWidth # "" THEN el.attr.strokeWidth
        ELSE fromStyle.strokeWidth)

\* Resolution in which the direct attributes override the style values.
getElementColors_AttrFirst(el, styleRules) ==
  StylePaint([el EXCEPT !.style = Paint(el.attr.fill, el.attr.stroke, el.attr.strokeWidth)],
             StylePaint(el, ClassPaint(el.classes, 1, styleRules, NoPaint)))

getElementColors(el, styleRules) ==
  AttrPaint(el, StylePaint(el, ClassPaint(el.classes, 1, styleRules, NoPaint)))

(***************************************************************************)
(* Layer classifier and transformer                                        *)
(***************************************************************************)

ShapeTags == {"path", "rect", "circle", "ellipse", "polygon", "polyline", "line", "text", "use"}

\* A LayerConfig; outputColor NoColor when the rule has none.
Layer(c, v, m, o) == [color |-> c, visibility |-> v, renderMode |-> m, outputColor |-> o]
NoLayer == [found |-> FALSE, layer |-> Layer(NoColor, "hidden", "fill", NoColor)]

\* layers: LayerConfig[] | null
NullLayers == [isNull |-> TRUE, list |-> << >>]
Layers(list) == [isNull |-> FALSE, list |-> list]

RECURSIVE FirstMatch(_, _, _)
\* for (const layer of layers): the first rule whose colour matches.
FirstMatch(normalized, layers, i) ==
  IF i > Len(layers) THEN NoLayer
  ELSE IF colorsMatch(normalized, layers[i].color) THEN [found |-> TRUE, layer |-> layers[i]]
  ELSE FirstMatch(normalized, layers, i + 1)

\* The lookup of a normalised colour: none for 'none' and for the empty text.
FindNormalized(normalized, layers) ==
  IF IsNoneText(normalized) \/ ~HasValue(normalized) THEN NoLayer
  ELSE FirstMatch(normalized, layers, 1)

findLayerConfig(color, layers) == FindNormalized(normalizeColorToHex(color), layers)

\* isClosedPath(d) for the d attribute of a path; other tags carry no d.
isClosedPath(el) == el.closed

\* The element with its class and style attributes removed.
Bare(el) == [el EXCEPT !.classes = << >>, !.style = NoPaint]

\* Passthrough mode that leaves the stroke width where it was.
PassthroughElement_NoStrokeWidth(el, colors) ==
  [Bare(el) EXCEPT
     !.attr = Paint(IF HasValue(colors.fill) THEN colors.fill ELSE el.attr.fill,
                    IF HasValue(colors.stroke) THEN colors.stroke ELSE el.attr.stroke,
                    el.attr.strokeWidth)]

\* Passthrough mode (layers === null): the resolved paint is written on the
\* element as plain attributes.
PassthroughElement(el, colors) ==
  [Bare(el) EXCEPT
     !.attr = Paint(IF HasValue(colors.fill) THEN colors.fill ELSE el.attr.fill,
                    IF HasValue(colors.stroke) THEN colors.stroke ELSE el.attr.stroke,
                    IF colors.strokeWidth # "" THEN colors.strokeWidth
                    ELSE el.attr.strokeWidth)]

\* colors.strokeWidth || dflt
StrokeWidthOr(colors, dflt) == IF colors.strokeWidth # "" THEN colors.strokeWidth ELSE dflt

\* hasFill and hasStroke: the resolved value is there and is not none.
HasFill(colors) == HasValue(colors.fill) /\ ~IsNoneText(colors.fill)
HasStroke(colors) == HasValue(colors.stroke) /\ ~IsNoneText(colors.stroke)

\* primaryColor as first set: the fill when there is one, else the stroke.
PrimaryColor(colors) == IF HasFill(colors) THEN colors.fill ELSE colors.stroke

\* When the primary colour found no rule and there is a stroke whose lookup
\* finds one, that rule is taken and the stroke becomes the primary colour.
RetryStroke(colors, firstConfig, strokeConfig) ==
  IF ~firstConfig.found /\ HasStroke(colors) /\ strokeConfig.found
  THEN [found |-> TRUE, layer |-> strokeConfig.layer, primaryColor |-> colors.stroke]
  ELSE [found |-> firstConfig.found, layer |-> firstConfig.layer,
        primaryColor |-> PrimaryColor(colors)]

\* layerConfig and primaryColor of an element with a visible colour.
LayerConfigFor(colors, layers) ==
  RetryStroke(colors, findLayerConfig(PrimaryColor(colors), layers),
              findLayerConfig(colors.stroke, layers))

\* targetColor: the rule's output colour, else black for show-black, else the
\* primary colour as hex.
TargetColor(cfg, primaryColor) ==
  IF HasValue(cfg.outputColor) THEN cfg.outputColor
  ELSE IF cfg.visibility = "show-black" THEN Hex6(0, 0, 0)
  ELSE normalizeColorToHex(primaryColor)

\* canFill: a closed shape.
CanFill(el) ==
  el.tag \in {"circle", "ellipse", "rect", "polygon"} \/ (el.tag = "path" /\ isClosedPath(el))

\* Stroke mode that gives a filled element the default width of a stroked one.
RenderElement_HalfDefault(el, colors, cfg, targetColor) ==
  IF cfg.renderMode = "fill"
  THEN [Bare(el) EXCEPT
          !.attr = IF HasFill(colors) \/ CanFill(el)
                   THEN Paint(targetColor, Named("none"), el.attr.strokeWidth)
                   ELSE Paint(Named("none"), Named("none"), StrokeWidthOr(colors, "0.5"))]
  ELSE [Bare(el) EXCEPT
          !.attr = Paint(Named("none"), targetColor, StrokeWidthOr(colors, "0.5"))]

\* The render mode applied to a kept element.  In fill mode the stroke
\* attribute is set to none last, also on an open path.
RenderElement(el, colors, cfg, targetColor) ==
  IF cfg.renderMode = "fill"
  THEN [Bare(el) EXCEPT
          !.attr = IF HasFill(colors) \/ CanFill(el)
                   THEN Paint(targetColor, Named("none"), el.attr.strokeWidth)
                   ELSE Paint(Named("none"), Named("none"), StrokeWidthOr(colors, "0.5"))]
  ELSE [Bare(el) EXCEPT
          !.attr = Paint(Named("none"), targetColor,
                         IF HasFill(colors) THEN StrokeWidthOr(colors, "1")
                         ELSE StrokeWidthOr(colors, "0.5"))]

\* The element under the rule looked up for it: pushed to elementsToRemove
\* when there is no rule or the rule is hidden, else rendered.
ApplyConfig(el, colors, config) ==
  IF ~config.found THEN [remove |-> TRUE, el |-> Bare(el)]
  ELSE IF config.layer.visibility = "hidden" THEN [remove |-> TRUE, el |-> Bare(el)]
  ELSE [remove |-> FALSE,
        el |-> RenderElement(el, colors, config.layer,
                             TargetColor(config.layer, config.primaryColor))]

\* Rule mode for one shape element: without a visible colour the element is
\* left as it is and is not marked.
RuleElement(el, colors, layers) ==
  IF ~HasFill(colors) /\ ~HasStroke(colors) THEN [remove |-> FALSE, el |-> Bare(el)]
  ELSE ApplyConfig(el, colors, LayerConfigFor(colors, layers))

\* The body of candidates.forEach for one shape element: the element as it is
\* left, and whether it is pushed to elementsToRemove.
ProcessElement(el, styleRules, layers) ==
  IF layers.isNull
  THEN [remove |-> FALSE, el |-> PassthroughElement(el, getElementColors(el, styleRules))]
  ELSE RuleElement(el, getElementColors(el, styleRules), layers.list)

\* A shape element or a group of the document.  id tells the elements of one
\* document apart; closed: the d of a path holds a closepath command.
\* bbox is what getBBox measures for the element, NoBox when it fails;
\* subpaths are the subpaths of the d attribute of a path, where they matter.
NoBox == [isNull |-> TRUE, x |-> 0, y |-> 0, width |-> 0, height |-> 0]
Box(x, y, w, h) == [isNull |-> FALSE, x |-> x, y |-> y, width |-> w, height |-> h]
Shape(tag, classes, style, attr, closed) ==
  [id |-> 0, tag |-> tag, classes |-> classes, style |-> style, attr |-> attr,
   closed |-> closed, children |-> << >>, bbox |-> Box(0, 0, 10, 10), subpaths |-> << >>]
Group(children) ==
  [id |-> 0, tag |-> "g", classes |-> << >>, style |-> NoPaint, attr |-> NoPaint,
   closed |-> FALSE, children |-> children, bbox |-> NoBox, subpaths |-> << >>]
ShapeAt(shape, bbox) == [shape EXCEPT !.bbox = bbox]

\* elementsToRemove.forEach(el => el.remove()): the elements not marked.
RemoveMarked(done) ==
  LET kept == SelectSeq([i \in 1..Len(done) |-> i], LAMBDA i : ~done[i].remove)
  IN [k \in 1..Len(kept) |-> done[kept[k]].el]

\* The children of a group after the forEach and the removal.
KeptElements(items, styleRules, layers) ==
  RemoveMarked([i \in 1..Len(items) |-> ProcessElement(items[i], styleRules, layers)])

\* candidates.forEach over the top-level nodes: a group is skipped itself and
\* its children are processed.
ForEachCandidate(nodes, styleRules, layers) ==
  [i \in 1..Len(nodes) |->
     IF nodes[i].tag = "g"
     THEN [remove |-> FALSE,
           el |-> [nodes[i] EXCEPT
                     !.children = KeptElements(nodes[i].children, styleRules, layers)]]
     ELSE ProcessElement(nodes[i], styleRules, layers)]

\* With layer rules, the groups left without a shape element are removed.
RemoveEmptyGroups(nodes, layers) ==
  IF layers.isNull THEN nodes
  ELSE SelectSeq(nodes, LAMBDA n : ~(n.tag = "g" /\ n.children = << >>))

\* The style block is dropped, every shape element (top level or inside a
\* group) goes through the forEach, the marked elements are removed and the
\* empty groups are cleaned up.
LayerTransform(nodes, styleRules, layers) ==
  RemoveEmptyGroups(RemoveMarked(ForEachCandidate(nodes, styleRules, layers)), layers)

\* processLayersForPanel(svgText, layers) with the default options (no
\* ornament-hole removal, no round backer): markup that does not parse is
\* returned as it is.
processLayersForPanel(doc, layers) ==
  IF ~doc.wellFormed \/ ~doc.hasSvg
  THEN [raw |-> TRUE, nodes |-> doc.nodes]
  ELSE [raw |-> FALSE, nodes |-> LayerTransform(doc.nodes, doc.styleRules, layers)]

\* The colours of the documents and of the layer rules.
Blue == Hex6(0, 0, 255)
BlueUpper == Hex6Upper(0, 0, 255)
NearBlue == Hex6(10, 0, 250)
Green == Hex6(0, 193, 0)
Black == Hex6(0, 0, 0)
Red == Hex6(255, 0, 0)
Odd == Hex6(18, 52, 86)
None == Named("none")

\* LAYER_PRESETS.standard and LAYER_PRESETS.inverted
StandardPreset ==
  <<Layer(Blue, "show-color", "stroke", Blue),
    Layer(Green, "show-color", "fill", Green),
    Layer(Black, "show-color", "stroke", Black),
    Layer(Red, "show-color", "stroke", Red)>>
InvertedPreset ==
  <<Layer(Blue, "hidden", "fill", Black),
    Layer(Green, "show-color", "fill", Black),
    Layer(Black, "show-color", "fill", Black),
    Layer(Red, "show-color", "stroke", Red)>>
\* A custom rule list whose rules have no output colour (outputColor is
\* optional in a LayerConfig).
CustomLayers ==
  <<Layer(Red, "hidden", "stroke", NoColor),
    Layer(Green, "show-black", "stroke", NoColor),
    Layer(Blue, "show-color", "fill", NoColor)>>
LayerInputs ==
  {NullLayers, Layers(<< >>), Layers(StandardPreset), Layers(InvertedPreset),
   Layers(CustomLayers)}

\* The style blocks of the documents.
StyleRule(cls, f, st, w) == [className |-> cls, fill |-> f, stroke |-> st, strokeWidth |-> w]
StyleSheets ==
  {<< >>,
   <<StyleRule("st0", Odd, NoColor, ""), StyleRule("st1", Green, NoColor, "")>>,
   <<StyleRule("st0", None, BlueUpper, "0.5"), StyleRule("st1", NoColor, Red, "2")>>}

\* The shape elements of the documents.
ShapePool ==
  {Shape("path", << >>, NoPaint, Paint(Green, NoColor, ""), TRUE),
   Shape("path", << >>, NoPaint, Paint(None, Blue, "0.5"), TRUE),
   Shape("path", << >>, NoPaint, NoPaint, TRUE),
   Shape("path", <<"st0">>, NoPaint, NoPaint, FALSE),
   Shape("line", << >>, Paint(NoColor, Red, "2"), NoPaint, FALSE),
   Shape("rect", << >>, NoPaint, Paint(Named("white"), Red, ""), FALSE),
   Shape("path", << >>, NoPaint, Paint(None, NoColor, ""), TRUE),
   Shape("text", <<"st1">>, NoPaint, Paint(Odd, NoColor, ""), FALSE),
   Shape("path", << >>, Paint(NoColor, Black, ""), NoPaint, FALSE),
   Shape("circle", << >>, NoPaint, Paint(NoColor, NearBlue, "1"), FALSE),
   Shape("path", <<"st0">>, Paint(Red, NoColor, ""), Paint(Green, Black, "3"), TRUE),
   Shape("rect", <<"st0", "st1">>, NoPaint, NoPaint, FALSE)}

\* The top-level nodes of a document: a shape, or a group of up to one shape.
NodePool == ShapePool \cup {Group(<< >>)} \cup {Group(<<e>>) : e \in ShapePool}

MaxNodes == 2
RECURSIVE NodeSeqs(_)
NodeSeqs(n) ==
  IF n = 0 THEN {<< >>}
  ELSE {Append(q, e) : q \in NodeSeqs(n - 1), e \in NodePool}

\* The elements numbered in document order.
WithIds(nodes) ==
  [i \in 1..Len(nodes) |->
     [nodes[i] EXCEPT
        !.id = 10 * i,
        !.children = [j \in 1..Len(nodes[i].children) |->
                        [nodes[i].children[j] EXCEPT !.id = 10 * i + j]]]]

SvgDoc(vb, w, h, rules, nodes) ==
  [wellFormed |-> TRUE, hasSvg |-> TRUE, viewBox |-> vb, width |-> w, height |-> h,
   styleRules |-> rules, nodes |-> nodes]

ProcDocs ==
  {SvgDoc(ViewBoxText(<<NumTok(0), NumTok(0), NumTok(40), NumTok(40)>>), AbsentDim, AbsentDim,
          rules, WithIds(q)) :
     rules \in StyleSheets, q \in UNION {NodeSeqs(n) : n \in 1..MaxNodes}}

NoContent == [raw |-> FALSE, nodes |-> << >>]

ProcIdle ==
  /\ procDoc = SvgDoc(AbsentViewBox, AbsentDim, AbsentDim, << >>, << >>)
  /\ procLayers = NullLayers
  /\ procResult = NoContent
  /\ procPhase = "idle"

\* A caller holds the arguments of a processLayersForPanel call.
ProcInit ==
  /\ procDoc \in ProcDocs
  /\ procLayers \in LayerInputs
  /\ procResult = NoContent
  /\ procPhase = "input"

\* processLayersForPanel(procDoc, procLayers) runs.
ProcCall ==
  /\ procPhase = "input"
  /\ procResult' = processLayersForPanel(procDoc, procLayers)
  /\ procPhase' = "done"
  /\ UNCHANGED <<procDoc, procLayers>>
  /\ UNCHANGED otherThanProc

(***************************************************************************)
(* Specifications of the grid layout engine                                *)
(***************************************************************************)

NoLayout ==
  [returns |-> FALSE, colsKind |-> "finite", rowsKind |-> "finite", capKind |-> "finite",
   cols |-> 0, rows |-> 0, capacityPerPanel |-> 0, placements |-> << >>]

\* The settings the grid engine is called with.
GridPanelDims == {-60, 0, 125, 300}
GridCellSizes == {-60, 0, 60, 301}
GridMargins == {0, 10}
GridGutters == {0, 5}
GridInputs ==
  [panelWidthMm : GridPanelDims, panelHeightMm : GridPanelDims,
   cellSizeMm : GridCellSizes, marginMm : GridMargins, gutterMm : GridGutters]

MaxItemCount == 57
MaxCapacity == 26
CountCapacities == (0 - 2)..MaxCapacity

GridIdle ==
  /\ gridSettings = [panelWidthMm |-> 300, panelHeightMm |-> 300, cellSizeMm |-> 60,
                     marginMm |-> 0, gutterMm |-> 0]
  /\ gridLayout = NoLayout
  /\ gridPhase = "idle"
  /\ countArgs = <<0, 0>>
  /\ countResult = 0
  /\ countPhase = "idle"

\* A caller holds the settings of a computeGridLayout call.
GridInit ==
  /\ gridSettings \in GridInputs
  /\ gridLayout = NoLayout
  /\ gridPhase = "input"
  /\ countArgs = <<0, 0>>
  /\ countResult = 0
  /\ countPhase = "idle"

\* computeGridLayout(gridSettings) runs.
GridCall ==
  /\ gridPhase = "input"
  /\ gridLayout' = computeGridLayout(gridSettings)
  /\ gridPhase' = "done"
  /\ UNCHANGED <<gridSettings, countArgs, countResult, countPhase>>
  /\ UNCHANGED otherThanGrid

\* A caller holds the arguments of a computePanelCount call.
CountInit ==
  /\ gridSettings = [panelWidthMm |-> 300, panelHeightMm |-> 300, cellSizeMm |-> 60,
                     marginMm |-> 0, gutterMm |-> 0]
  /\ gridLayout = NoLayout
  /\ gridPhase = "idle"
  /\ countArgs \in (0..MaxItemCount) \X CountCapacities
  /\ countResult = 0
  /\ countPhase = "input"

\* computePanelCount(countArgs) runs.
CountCall ==
  /\ countPhase = "input"
  /\ countResult' = computePanelCount(countArgs[1], countArgs[2])
  /\ countPhase' = "done"
  /\ UNCHANGED <<gridSettings, gridLayout, gridPhase, countArgs>>
  /\ UNCHANGED otherThanGrid

(***************************************************************************)
(* Panel builder                                                           *)
(***************************************************************************)

Min(a, b) == IF a < b THEN a ELSE b

\* A File of the fileMap: whether file.text() resolves, and the markup read.
FileOf(readable, doc) == [readable |-> readable, doc |-> doc]

\* The markup of the assets: one that parses, one that does not parse and one
\* without a root svg element.
GoodMarkup ==
  SvgDoc(ViewBoxText(<<NumTok(0), NumTok(0), NumTok(40), NumTok(40)>>), AbsentDim, AbsentDim,
         << >>, WithIds(<<Shape("path", << >>, NoPaint, Paint(Green, NoColor, ""), TRUE)>>))
OtherMarkup ==
  SvgDoc(ViewBoxText(<<NumTok(0), NumTok(0), NumTok(40), NumTok(40)>>), AbsentDim, AbsentDim,
         << >>, WithIds(<<Shape("circle", << >>, NoPaint, Paint(Green, NoColor, ""), TRUE)>>))
MalformedMarkup == [GoodMarkup EXCEPT !.wellFormed = FALSE]
RootlessMarkup == [GoodMarkup EXCEPT !.hasSvg = FALSE]

\* readFileFromMap and parseSvgString for one path: the parse result, or what
\* the read throws.
ReadAndParse(fileMap, path) ==
  IF path \notin DOMAIN fileMap THEN ParseThrew("File not found")
  ELSE IF ~fileMap[path].readable THEN ParseThrew("The file could not be read")
  ELSE parseSvgString(fileMap[path].doc)

\* The five fields handed to computeGridLayout.
GridSettingsOf(settings) ==
  [panelWidthMm |-> settings.panelWidthMm, panelHeightMm |-> settings.panelHeightMm,
   cellSizeMm |-> settings.cellSizeMm, marginMm |-> settings.marginMm,
   gutterMm |-> settings.gutterMm]

\* The number of items of panel panelIndex that the inner loop reaches:
\* selected.slice(start, end), left at the first index without a placement.
ReachedCount(n, grid, panelIndex) ==
  Min(Min(n, panelIndex * grid.capacityPerPanel + grid.capacityPerPanel)
        - panelIndex * grid.capacityPerPanel,
      Len(grid.placements))

\* The positions (from 1) in selected of the items the loops reach.
ReachedPositions(n, grid, panelCount) ==
  UNION {{panelIndex * grid.capacityPerPanel + i : i \in 1..ReachedCount(n, grid, panelIndex)} :
           panelIndex \in 0..(panelCount - 1)}

\* The reached positions whose file cannot be read or parsed.
FailingPositions(selected, fileMap, reached) ==
  {k \in reached : ReadAndParse(fileMap, selected[k].path).threw}

\* The content group pushed for one item: its cell and the processed content.
ContentGroup(file, placement, settings, fileMap) ==
  [path |-> file.path, indexInPanel |-> placement.indexInPanel,
   x |-> placement.x, y |-> placement.y, size |-> placement.size,
   content |-> processLayersForPanel(fileMap[file.path].doc, settings.layerSettings).nodes]

\* The document of panel panelIndex.
PanelDocument(selected, settings, fileMap, grid, panelIndex) ==
  [width |-> settings.panelWidthMm, height |-> settings.panelHeightMm,
   groups |-> [i \in 1..ReachedCount(Len(selected), grid, panelIndex) |->
                 ContentGroup(selected[panelIndex * grid.capacityPerPanel + i],
                              grid.placements[i], settings, fileMap)]]

Built(panelSvgs, grid) ==
  [threw |-> FALSE, error |-> "", panelSvgs |-> panelSvgs, cols |-> grid.cols,
   rows |-> grid.rows, capacityPerPanel |-> grid.capacityPerPanel]
BuildThrew(msg) ==
  [threw |-> TRUE, error |-> msg, panelSvgs |-> << >>, cols |-> 0, rows |-> 0,
   capacityPerPanel |-> 0]

\* The two loops: the first reached item that fails rejects the promise,
\* otherwise every panel document is returned.
BuildLoops(selected, settings, fileMap, grid, panelCount, failing) ==
  IF failing # {}
  THEN BuildThrew(ReadAndParse(fileMap,
                    selected[CHOOSE k \in failing : \A j \in failing : k <= j].path).error)
  ELSE Built([idx \in 1..panelCount |->
                PanelDocument(selected, settings, fileMap, grid, idx - 1)], grid)

BuildPanels(selected, settings, fileMap, grid, panelCount) ==
  IF panelCount <= 0 THEN Built(<< >>, grid)
  ELSE BuildLoops(selected, settings, fileMap, grid, panelCount,
                  FailingPositions(selected, fileMap,
                                   ReachedPositions(Len(selected), grid, panelCount)))

BuildOnGrid(selected, settings, fileMap, grid) ==
  BuildPanels(selected, settings, fileMap, grid,
              computePanelCount(Len(selected), grid.capacityPerPanel))

\* buildPanelSvgs(selected, settings, fileMap) for settings whose
\* cellSizeMm + gutterMm is not 0, without ornament-hole removal and round
\* backer.
buildPanelSvgs(selected, settings, fileMap) ==
  BuildOnGrid(selected, settings, fileMap, computeGridLayout(GridSettingsOf(settings)))

\* The arguments of the calls.
MaxSelected == 27
BuildPanelWidths == {0 - 60, 130, 300}
BuildPanelHeights == {0 - 60, 10, 300}
PanelBuildSettings(w, h, layers) ==
  [panelWidthMm |-> w, panelHeightMm |-> h, cellSizeMm |-> 60, marginMm |-> 0,
   gutterMm |-> 0, layerSettings |-> layers]
BuildSettingsInputs ==
  {PanelBuildSettings(w, h, layers) :
     w \in BuildPanelWidths, h \in BuildPanelHeights,
     layers \in {NullLayers, Layers(StandardPreset)}}

\* The selected files are the paths 1..n.
SelectedOf(n) == [k \in 1..n |-> [path |-> k]]

\* The ways one file of a fileMap is bad: it is not in the map, its text cannot
\* be read, its markup does not parse, its markup has no svg element.
BadFileKinds == {"missing", "unreadable", "malformed", "rootless"}

\* A fileMap for the paths 1..n in which the file at path bad (none when 0)
\* is bad in the given way.
FileMapOf(n, bad, kind) ==
  [k \in (IF kind = "missing" THEN (1..n) \ {bad} ELSE 1..n) |->
     IF k # bad THEN FileOf(TRUE, GoodMarkup)
     ELSE IF kind = "unreadable" THEN FileOf(FALSE, GoodMarkup)
     ELSE IF kind = "malformed" THEN FileOf(TRUE, MalformedMarkup)
     ELSE FileOf(TRUE, RootlessMarkup)]

NoBuilt ==
  [threw |-> FALSE, error |-> "", panelSvgs |-> << >>, cols |-> 0, rows |-> 0,
   capacityPerPanel |-> 0]

BuildIdle ==
  /\ buildSelected = << >>
  /\ buildSettings = PanelBuildSettings(300, 300, NullLayers)
  /\ buildFileMap = << >>
  /\ buildResult = NoBuilt
  /\ buildPhase = "idle"

\* A caller holds the arguments of a buildPanelSvgs call.
BuildInit ==
  /\ \E n \in 0..MaxSelected : \E bad \in 0..n : \E kind \in BadFileKinds :
       /\ buildSelected = SelectedOf(n)
       /\ buildFileMap = FileMapOf(n, bad, kind)
  /\ buildSettings \in BuildSettingsInputs
  /\ buildResult = NoBuilt
  /\ buildPhase = "input"

\* buildPanelSvgs(buildSelected, buildSettings, buildFileMap) settles.
BuildCall ==
  /\ buildPhase = "input"
  /\ buildResult' = buildPanelSvgs(buildSelected, buildSettings, buildFileMap)
  /\ buildPhase' = "done"
  /\ UNCHANGED <<buildSelected, buildSettings, buildFileMap>>
  /\ UNCHANGED otherThanBuild

(***************************************************************************)
(* Round backer                                                            *)
(***************************************************************************)

\* getSvgViewBox: the viewBox attribute when it is 4 finite numbers with a
\* positive width and height, else (0, 0, width, height) of the width and
\* height attributes when both are positive numbers, else null.
getSvgViewBox(doc) ==
  IF /\ ViewBoxTruthy(doc.viewBox)
     /\ Len(doc.viewBox.parts) = 4
     /\ \A i \in 1..4 : TokIsFinite(doc.viewBox.parts[i])
     /\ TokNumber(doc.viewBox.parts[3]) > 0
     /\ TokNumber(doc.viewBox.parts[4]) > 0
  THEN Box(TokNumber(doc.viewBox.parts[1]), TokNumber(doc.viewBox.parts[2]),
           TokNumber(doc.viewBox.parts[3]), TokNumber(doc.viewBox.parts[4]))
  ELSE IF /\ doc.width.kind = "number" /\ doc.height.kind = "number"
          /\ doc.width.value > 0 /\ doc.height.value > 0
  THEN Box(0, 0, doc.width.value, doc.height.value)
  ELSE NoBox

RECURSIVE QueryAll(_)
\* querySelectorAll of shape elements: the matches in document order, at the
\* top level and inside groups.
QueryAll(nodes) ==
  IF nodes = << >> THEN << >>
  ELSE (IF Head(nodes).tag = "g" THEN Head(nodes).children ELSE <<Head(nodes)>>)
         \o QueryAll(Tail(nodes))

\* The stroke looked up for a cut-line candidate: class rules, then the inline
\* style, then the stroke attribute.
ResolvedStroke(el, styleRules) == getElementColors(el, styleRules).stroke

\* The stroke is there and matches the cut colour '#0000ff'.
IsCutColor(stroke) ==
  HasValue(stroke) /\ colorsMatch(normalizeColorToHex(stroke), Hex6(0, 0, 255))

\* A cut line: its bbox and, when the element itself is known, its id.
NoCut == [isNull |-> TRUE, id |-> 0, x |-> 0, y |-> 0, width |-> 0, height |-> 0]
CutOf(el) ==
  [isNull |-> FALSE, id |-> el.id, x |-> el.bbox.x, y |-> el.bbox.y,
   width |-> el.bbox.width, height |-> el.bbox.height]

\* One candidate of the search loop against the best so far.
BetterCut(el, styleRules, best) ==
  IF el.tag \notin {"circle", "ellipse", "path"} THEN best
  ELSE IF ~IsCutColor(ResolvedStroke(el, styleRules)) THEN best
  ELSE IF el.bbox.isNull \/ el.bbox.width <= 0 THEN best
  ELSE IF best.isNull \/ el.bbox.width > best.width THEN CutOf(el)
  ELSE best

RECURSIVE WidestCut(_, _, _, _)
\* for (const el of candidates): the widest element stroked in the cut colour.
WidestCut(els, styleRules, i, best) ==
  IF i > Len(els) THEN best
  ELSE WidestCut(els, styleRules, i + 1, BetterCut(els[i], styleRules, best))

\* detectCutLineBbox: the bbox alone, without the element.
detectCutLineBbox(nodes, styleRules) ==
  [WidestCut(QueryAll(nodes), styleRules, 1, NoCut) EXCEPT !.id = 0]

\* An element that addRoundBackerOutline removes: the cut element it found
\* itself, and every circle, ellipse, path or line stroked in the cut colour.
IsSwept(el, styleRules, cutId) ==
  \/ (cutId # 0 /\ el.id = cutId)
  \/ /\ el.tag \in {"circle", "ellipse", "path", "line"}
     /\ IsCutColor(ResolvedStroke(el, styleRules))

SweepChildren(children, styleRules, cutId) ==
  SelectSeq(children, LAMBDA el : ~IsSwept(el, styleRules, cutId))

\* The nodes after the removals; a group stays when it is left empty.
SweepNodes(nodes, styleRules, cutId) ==
  SelectSeq([i \in 1..Len(nodes) |->
               IF nodes[i].tag = "g"
               THEN [nodes[i] EXCEPT
                       !.children = SweepChildren(nodes[i].children, styleRules, cutId)]
               ELSE nodes[i]],
            LAMBDA n : n.tag = "g" \/ ~IsSwept(n, styleRules, cutId))

\* The circle appended by addRoundBackerOutline.
NoBacker ==
  [present |-> FALSE, cx |-> 0, cy |-> 0, r |-> 0, fill |-> NoColor, stroke |-> NoColor,
   strokeWidth |-> ""]
BackerCircle(cx, cy, r, strokeWidth) ==
  [present |-> TRUE, cx |-> cx, cy |-> cy, r |-> r, fill |-> Named("none"),
   stroke |-> Hex6(0, 0, 0), strokeWidth |-> strokeWidth]

\* BackerWithCut taking the larger side of the bbox as the diameter.
BackerWithCut_LargerSide(nodes, vb, styleRules, strokeWidth, cut) ==
  IF cut.isNull
  THEN [raw |-> FALSE, nodes |-> nodes,
        backer |-> BackerCircle(vb.x + vb.width \div 2, vb.y + vb.height \div 2,
                                ((Min(vb.width, vb.height) * 95) \div 100) \div 2,
                                strokeWidth)]
  ELSE [raw |-> FALSE, nodes |-> SweepNodes(nodes, styleRules, cut.id),
        backer |-> BackerCircle(cut.x + cut.width \div 2,
                                cut.y + cut.height
                                  - (IF cut.width > cut.height THEN cut.width
                                     ELSE cut.height) \div 2,
                                (IF cut.width > cut.height THEN cut.width
                                 ELSE cut.height) \div 2, strokeWidth)]

\* The rest of addRoundBackerOutline once the cut line is settled.  Widths
\* are multiples of 2 and viewBox sizes multiples of 40, so the halves and
\* the 95% are whole numbers.
BackerWithCut(nodes, vb, styleRules, strokeWidth, cut) ==
  IF cut.isNull
  THEN [raw |-> FALSE, nodes |-> nodes,
        backer |-> BackerCircle(vb.x + vb.width \div 2, vb.y + vb.height \div 2,
                                ((Min(vb.width, vb.height) * 95) \div 100) \div 2,
                                strokeWidth)]
  ELSE [raw |-> FALSE, nodes |-> SweepNodes(nodes, styleRules, cut.id),
        backer |-> BackerCircle(cut.x + cut.width \div 2,
                                cut.y + cut.height - cut.width \div 2,
                                cut.width \div 2, strokeWidth)]

\* addRoundBackerOutline: the pre-calculated bbox when there is one, else the
\* search over the elements as they are now.
addRoundBackerOutline(nodes, vb, styleRules, strokeWidth, preCalculatedBbox) ==
  BackerWithCut(nodes, vb, styleRules, strokeWidth,
                IF preCalculatedBbox.isNull
                THEN WidestCut(QueryAll(nodes), styleRules, 1, NoCut)
                ELSE preCalculatedBbox)

\* ProcessingOptions without ornament-hole removal.
ProcessingOptions(addRoundBacker, roundBackerStrokeWidth) ==
  [addRoundBacker |-> addRoundBacker, roundBackerStrokeWidth |-> roundBackerStrokeWidth]

\* processLayersForPanel(svgText, layers, options): the cut line is looked for
\* before the layer transform and the backer is added after it, both only
\* when the option is on and the document has a viewBox.
processLayersForPanelWith(doc, layers, options) ==
  IF ~doc.wellFormed \/ ~doc.hasSvg
  THEN [raw |-> TRUE, nodes |-> doc.nodes, backer |-> NoBacker]
  ELSE IF options.addRoundBacker /\ ~getSvgViewBox(doc).isNull
  THEN addRoundBackerOutline(LayerTransform(doc.nodes, doc.styleRules, layers),
                             getSvgViewBox(doc), doc.styleRules,
                             options.roundBackerStrokeWidth,
                             detectCutLineBbox(doc.nodes, doc.styleRules))
  ELSE [raw |-> FALSE, nodes |-> LayerTransform(doc.nodes, doc.styleRules, layers),
        backer |-> NoBacker]

\* The elements of the documents given to the round backer, with the bbox
\* that getBBox measures for each.
BackerShapes ==
  {ShapeAt(Shape("circle", << >>, NoPaint, Paint(None, Blue, "0.5"), FALSE), Box(0, 0, 40, 50)),
   ShapeAt(Shape("path", <<"st0">>, NoPaint, NoPaint, TRUE), Box(10, 10, 20, 20)),
   ShapeAt(Shape("circle", << >>, NoPaint, Paint(NoColor, NearBlue, "1"), FALSE),
           Box(10, 0, 60, 60)),
   ShapeAt(Shape("path", << >>, NoPaint, Paint(Green, NoColor, ""), TRUE), Box(4, 4, 30, 30)),
   ShapeAt(Shape("rect", << >>, NoPaint, Paint(None, Blue, "0.5"), FALSE), Box(0, 0, 40, 40)),
   ShapeAt(Shape("line", << >>, Paint(NoColor, BlueUpper, ""), NoPaint, FALSE),
           Box(0, 20, 40, 0)),
   ShapeAt(Shape("path", << >>, NoPaint, Paint(None, Red, ""), FALSE), Box(0, 0, 20, 20)),
   ShapeAt(Shape("ellipse", << >>, NoPaint, Paint(None, Blue, ""), FALSE), NoBox),
   ShapeAt(Shape("path", << >>, NoPaint, Paint(None, Blue, ""), FALSE), Box(20, 0, 0, 30))}

BackerNodePool == BackerShapes \cup {Group(<<e>>) : e \in {s \in BackerShapes : s.tag = "path"}}

MaxBackerNodes == 2
RECURSIVE BackerNodeSeqs(_)
BackerNodeSeqs(n) ==
  IF n = 0 THEN {<< >>}
  ELSE {Append(q, e) : q \in BackerNodeSeqs(n - 1), e \in BackerNodePool}

\* The viewBox, width and height of the documents: a viewBox, a width and
\* height alone, or none of the three.
BackerFrames ==
  {<<ViewBoxText(<<NumTok(0), NumTok(0), NumTok(40), NumTok(80)>>), AbsentDim, AbsentDim>>,
   <<AbsentViewBox, NumberDim(80, "mm"), NumberDim(40, "mm")>>,
   <<AbsentViewBox, AbsentDim, AbsentDim>>}

BackerDocs ==
  {SvgDoc(frame[1], frame[2], frame[3], rules, WithIds(q)) :
     frame \in BackerFrames,
     rules \in {<< >>, <<StyleRule("st0", None, BlueUpper, "0.5")>>},
     q \in UNION {BackerNodeSeqs(n) : n \in 1..MaxBackerNodes}}

\* A rule list that shows the cut layer in black.
BlackCutLayers == <<Layer(Blue, "show-black", "stroke", NoColor)>>

BackerLayerInputs ==
  {NullLayers, Layers(StandardPreset), Layers(InvertedPreset), Layers(CustomLayers),
   Layers(BlackCutLayers)}

NoBackerContent == [raw |-> FALSE, nodes |-> << >>, backer |-> NoBacker]

BackerIdle ==
  /\ backerDoc = SvgDoc(AbsentViewBox, AbsentDim, AbsentDim, << >>, << >>)
  /\ backerLayers = NullLayers
  /\ backerOptions = ProcessingOptions(FALSE, "0.5")
  /\ backerResult = NoBackerContent
  /\ backerPhase = "idle"

\* A caller holds the arguments of a processLayersForPanel call with options.
BackerInit ==
  /\ backerDoc \in BackerDocs
  /\ backerLayers \in BackerLayerInputs
  /\ backerOptions \in {ProcessingOptions(on, "0.5") : on \in BOOLEAN}
  /\ backerResult = NoBackerContent
  /\ backerPhase = "input"

\* processLayersForPanel(backerDoc, backerLayers, backerOptions) runs.
BackerCall ==
  /\ backerPhase = "input"
  /\ backerResult' = processLayersForPanelWith(backerDoc, backerLayers, backerOptions)
  /\ backerPhase' = "done"
  /\ UNCHANGED <<backerDoc, backerLayers, backerOptions>>
  /\ UNCHANGED otherThanBacker

(***************************************************************************)
(* The item loop of the panel builder and its cache                        *)
(***************************************************************************)

\* A File of the fileMap with its markup; compact says that the svg element
\* holds nothing but the style block and shape and group elements (no text
\* between the tags, no defs, title or comment); measurable says that
\* getBBox works on its content (it throws on geometry it cannot evaluate).
MarkupFile(doc, compact, measurable) ==
  [readable |-> TRUE, doc |-> doc, compact |-> compact, measurable |-> measurable]

\* The settings of a run that the item loop uses.
RunSettings(layers, addRoundBacker) ==
  [layerSettings |-> layers, addRoundBacker |-> addRoundBacker, roundBackerStrokeWidth |-> "0.5"]

\* processingKey: the JSON text of the processing options, which is the same
\* text exactly for the same options; NoKey is a processingKey not yet set.
processingKey(settings) ==
  [isUndefined |-> FALSE, layers |-> settings.layerSettings, removeHole |-> FALSE,
   roundBacker |-> settings.addRoundBacker, backerStroke |-> settings.roundBackerStrokeWidth]
NoKey ==
  [isUndefined |-> TRUE, layers |-> NullLayers, removeHole |-> FALSE, roundBacker |-> FALSE,
   backerStroke |-> ""]

\* imported.innerHTML once processing is over: the empty string when nothing
\* is left inside the svg element.
InnerHTML(content, compact) ==
  [isEmpty |-> compact /\ ~content.raw /\ content.nodes = << >> /\ ~content.backer.present,
   nodes |-> content.nodes, backer |-> content.backer]

\* The cache entry set after the read and the parse; a bounds field that is
\* undefined is NoBox.
Parsed(base, file) ==
  [viewBox |-> base.viewBox, svgText |-> file, hasProcessedContent |-> FALSE,
   processedContent |-> InnerHTML(NoBackerContent, FALSE), processingKey |-> NoKey,
   processedBounds |-> NoBox, innerContentBounds |-> NoBox]

\* The boxes that getBBox of the measuring svg element unites: those of the
\* shape elements and of the backer circle.
ContentBoxes(content) ==
  ({QueryAll(content.nodes)[i].bbox : i \in 1..Len(QueryAll(content.nodes))} \ {NoBox})
    \cup (IF content.backer.present
          THEN {Box(content.backer.cx - content.backer.r, content.backer.cy - content.backer.r,
                    2 * content.backer.r, 2 * content.backer.r)}
          ELSE {})
Least(numbers) == CHOOSE n \in numbers : \A m \in numbers : n <= m
Greatest(numbers) == CHOOSE n \in numbers : \A m \in numbers : n >= m
UnionBox(boxes) ==
  IF boxes = {} THEN Box(0, 0, 0, 0)
  ELSE Box(Least({b.x : b \in boxes}), Least({b.y : b \in boxes}),
           Greatest({b.x + b.width : b \in boxes}) - Least({b.x : b \in boxes}),
           Greatest({b.y + b.height : b \in boxes}) - Least({b.y : b \in boxes}))

\* measureInnerContentBounds: null when getBBox throws or gives a box
\* without a positive width and height.
measureInnerContentBounds(vb, content, measurable) ==
  IF ~measurable THEN NoBox
  ELSE IF UnionBox(ContentBoxes(content)).width <= 0
          \/ UnionBox(ContentBoxes(content)).height <= 0 THEN NoBox
  ELSE UnionBox(ContentBoxes(content))

\* parsed.innerContent: the content of the svg element as it was read.
InnerContent(parsed) == [nodes |-> parsed.svgText.doc.nodes, backer |-> NoBacker]

\* !parsed.processedContent || parsed.processingKey !== processingKey
NeedsProcessing(parsed, key) ==
  \/ ~parsed.hasProcessedContent
  \/ parsed.processedContent.isEmpty
  \/ parsed.processingKey # key

\* The entry after processLayersForPanel has run for it.
ProcessedEntry(parsed, settings) ==
  [parsed EXCEPT
     !.hasProcessedContent = TRUE,
     !.processedContent =
        InnerHTML(processLayersForPanelWith(
                    parsed.svgText.doc, settings.layerSettings,
                    ProcessingOptions(settings.addRoundBacker,
                                      settings.roundBackerStrokeWidth)),
                  parsed.svgText.compact),
     !.processedBounds =
        measureInnerContentBounds(
          parsed.viewBox,
          InnerHTML(processLayersForPanelWith(
                      parsed.svgText.doc, settings.layerSettings,
                      ProcessingOptions(settings.addRoundBacker,
                                        settings.roundBackerStrokeWidth)),
                    parsed.svgText.compact),
          parsed.svgText.measurable),
     !.processingKey = processingKey(settings)]

\* cache.get(file.path), and the read, parse and cache.set when it is not there.
AfterLookup(cache, fileMap, path) ==
  IF path \in DOMAIN cache THEN cache
  ELSE cache @@ (path :> Parsed(parseSvgString(fileMap[path].doc), fileMap[path]))

\* The cache after the processing step of one item.
AfterProcessing(cache, path, settings) ==
  IF NeedsProcessing(cache[path], processingKey(settings))
  THEN [cache EXCEPT ![path] = ProcessedEntry(cache[path], settings)]
  ELSE cache

\* if (!renderBounds) { if (!parsed.innerContentBounds) ... }: the bounds of
\* the content as read are measured when the processed bounds are missing.
AfterDefaultBounds(cache, path) ==
  IF cache[path].processedBounds.isNull /\ cache[path].innerContentBounds.isNull
  THEN [cache EXCEPT ![path].innerContentBounds =
          measureInnerContentBounds(cache[path].viewBox, InnerContent(cache[path]),
                                    cache[path].svgText.measurable)]
  ELSE cache

\* const bounds = renderBounds ?? vb
BoundsOf(parsed) ==
  IF ~parsed.processedBounds.isNull THEN parsed.processedBounds
  ELSE IF ~parsed.innerContentBounds.isNull THEN parsed.innerContentBounds
  ELSE Box(parsed.viewBox.x, parsed.viewBox.y, parsed.viewBox.width, parsed.viewBox.height)

\* The cache after one pass of the item loop.
AfterItem(cache, fileMap, path, settings) ==
  AfterDefaultBounds(AfterProcessing(AfterLookup(cache, fileMap, path), path, settings), path)

\* The calls made so far in a run, per path: readFileFromMap, parseSvgString
\* and processLayersForPanel.
NoWork(paths) ==
  [reads |-> [p \in paths |-> 0], parses |-> [p \in paths |-> 0],
   processed |-> [p \in paths |-> 0]]
CountRead(work, cache, fileMap, path) ==
  IF path \in DOMAIN cache THEN work
  ELSE IF path \in DOMAIN fileMap /\ fileMap[path].readable
  THEN [work EXCEPT !.reads[path] = @ + 1, !.parses[path] = @ + 1]
  ELSE [work EXCEPT !.reads[path] = @ + 1]
CountProcessing(work, cache, path, settings) ==
  IF NeedsProcessing(cache[path], processingKey(settings))
  THEN [work EXCEPT !.processed[path] = @ + 1]
  ELSE work

\* The arguments of the runs: up to MaxRunItems items over MaxRunPaths paths,
\* a path any number of times.
MaxRunItems == 4
MaxRunPaths == 2
RECURSIVE RunSelections(_)
RunSelections(n) ==
  IF n = 0 THEN {<< >>}
  ELSE {Append(q, [path |-> p]) : q \in RunSelections(n - 1), p \in 1..MaxRunPaths}
RunFiles ==
  {MarkupFile(GoodMarkup, TRUE, TRUE), MarkupFile(GoodMarkup, FALSE, TRUE),
   MarkupFile(GoodMarkup, FALSE, FALSE), MarkupFile(MalformedMarkup, TRUE, TRUE)}
RunSettingsInputs ==
  {RunSettings(layers, on) :
     layers \in {NullLayers, Layers(<< >>), Layers(StandardPreset)}, on \in BOOLEAN}

RunIdle ==
  /\ runSelected = << >>
  /\ runFileMap = << >>
  /\ runSettings = RunSettings(NullLayers, FALSE)
  /\ runCache = << >>
  /\ runIndex = 0
  /\ runWork = NoWork({})
  /\ runPlaced = << >>
  /\ runPhase = "idle"

\* buildPanelSvgs is entered: the cache is new and no item is done.  The
\* layout has a cell for every item, so the loops reach the items in order.
RunInit ==
  /\ runSelected \in UNION {RunSelections(n) : n \in 0..MaxRunItems}
  /\ runFileMap \in [1..MaxRunPaths -> RunFiles]
  /\ runSettings \in RunSettingsInputs
  /\ runCache = << >>
  /\ runIndex = 0
  /\ runWork = NoWork(1..MaxRunPaths)
  /\ runPlaced = << >>
  /\ runPhase = "running"

\* The group pushed for one item: the content and the bounds it is fitted by.
PlacedItem(path, parsed) ==
  [path |-> path, content |-> parsed.processedContent, bounds |-> BoundsOf(parsed)]

\* The next item cannot be read or parsed: the run rejects.
RunItemThrows ==
  /\ runPhase = "running" /\ runIndex < Len(runSelected)
  /\ runSelected[runIndex + 1].path \notin DOMAIN runCache
  /\ ReadAndParse(runFileMap, runSelected[runIndex + 1].path).threw
  /\ runWork' = CountRead(runWork, runCache, runFileMap, runSelected[runIndex + 1].path)
  /\ runPhase' = "threw"
  /\ UNCHANGED <<runSelected, runFileMap, runSettings, runCache, runIndex, runPlaced>>
  /\ UNCHANGED otherThanRun

\* One pass of the item loop: the cache lookup with the read and parse when
\* the path is new, then the processing when it is needed.
RunItem ==
  /\ runPhase = "running" /\ runIndex < Len(runSelected)
  /\ \/ runSelected[runIndex + 1].path \in DOMAIN runCache
     \/ ~ReadAndParse(runFileMap, runSelected[runIndex + 1].path).threw
  /\ runCache' = AfterItem(runCache, runFileMap, runSelected[runIndex + 1].path, runSettings)
  /\ runPlaced' =
       Append(runPlaced,
              PlacedItem(runSelected[runIndex + 1].path,
                         AfterItem(runCache, runFileMap, runSelected[runIndex + 1].path,
                                   runSettings)[runSelected[runIndex + 1].path]))
  /\ runWork' =
       CountProcessing(
         CountRead(runWork, runCache, runFileMap, runSelected[runIndex + 1].path),
         AfterLookup(runCache, runFileMap, runSelected[runIndex + 1].path),
         runSelected[runIndex + 1].path, runSettings)
  /\ runIndex' = runIndex + 1
  /\ UNCHANGED <<runSelected, runFileMap, runSettings, runPhase>>
  /\ UNCHANGED otherThanRun

\* Every item is done: buildPanelSvgs returns.
RunReturns ==
  /\ runPhase = "running" /\ runIndex = Len(runSelected)
  /\ runPhase' = "done"
  /\ UNCHANGED <<runSelected, runFileMap, runSettings, runCache, runIndex, runWork,
                 runPlaced>>
  /\ UNCHANGED otherThanRun

RunNext == RunItemThrows \/ RunItem \/ RunReturns

(***************************************************************************)
(* Text fit                                                                *)
(***************************************************************************)

RECURSIVE GCD(_, _)
GCD(a, b) == IF b = 0 THEN a ELSE GCD(b, a % b)
\* A number that need not be whole: num / den in lowest terms, den > 0.
Frac(n, d) == [num |-> n \div GCD(Abs(n), d), den |-> d \div GCD(Abs(n), d)]
FracLess(a, b) == a.num * b.den < b.num * a.den
FracMin(a, b) == IF FracLess(b, a) THEN b ELSE a
FracMax(a, b) == IF FracLess(a, b) THEN b ELSE a

\* What getBBox of the text element gives for a text in a font at size 100:
\* no usable box, or a box whose size grows linearly with the font size.
NoTextBox == [valid |-> FALSE, width |-> 0, height |-> 0, y |-> 0]
TextBox(width, height, y) == [valid |-> TRUE, width |-> width, height |-> height, y |-> y]

\* measureTextSvg(text, fontFamily, fontSize): the measured box, or the
\* estimates when the box has no positive width and height.
measureTextSvg(text, metrics, fontSize) ==
  IF ~metrics.valid \/ metrics.width <= 0 \/ metrics.height <= 0
  THEN [width |-> Frac(text.length * 6 * fontSize.num, 10 * fontSize.den),
        height |-> Frac(12 * fontSize.num, 10 * fontSize.den),
        ascent |-> Frac(8 * fontSize.num, 10 * fontSize.den),
        descent |-> Frac(2 * fontSize.num, 10 * fontSize.den)]
  ELSE [width |-> Frac(metrics.width * fontSize.num, 100 * fontSize.den),
        height |-> Frac(metrics.height * fontSize.num, 100 * fontSize.den),
        ascent |-> Frac((0 - metrics.y) * fontSize.num, 100 * fontSize.den),
        descent |-> Frac((metrics.height + metrics.y) * fontSize.num, 100 * fontSize.den)]

\* measuredHeight and measuredWidth of calculateTextFit.
MeasuredHeight(measured) ==
  IF measured.height.num > 0 THEN measured.height ELSE Frac(120, 1)
MeasuredWidth(text, measured) ==
  IF measured.width.num > 0 THEN measured.width ELSE Frac(text.length * 60, 1)

\* refSize * (side * 0.99) / measured
RefTimesScale(side, measured) == Frac(99 * side * measured.den, measured.num)

\* Math.max(1, Math.min(refSize * scale, 2000))
ClampedFontSize(text, box, measured) ==
  FracMax(Frac(1, 1),
          FracMin(FracMin(RefTimesScale(box.height, MeasuredHeight(measured)),
                          RefTimesScale(box.width, MeasuredWidth(text, measured))),
                  Frac(2000, 1)))

\* The result of calculateTextFit; twiceX is 2 * x.
TextFit(fontSize, twiceX, y) == [fontSize |-> fontSize, twiceX |-> twiceX, y |-> y]

\* boxBottom - final.descent for the final measurement.
BaselineY(box, final) ==
  Frac((box.y + box.height) * final.descent.den - final.descent.num, final.descent.den)

FitAtSize(text, metrics, box, fontSize) ==
  TextFit(fontSize, 2 * box.x + box.width,
          BaselineY(box, measureTextSvg(text, metrics, fontSize)))

\* calculateTextFit taking the fallback for an empty text only.
calculateTextFit_EmptyTextOnly(text, metrics, box) ==
  IF text.length = 0
  THEN TextFit(Frac(12, 1), 2 * box.x + box.width, Frac(box.y + box.height, 1))
  ELSE FitAtSize(text, metrics, box,
                 ClampedFontSize(text, box, measureTextSvg(text, metrics, Frac(100, 1))))

calculateTextFit(text, metrics, box) ==
  IF text.length = 0 \/ box.width <= 0 \/ box.height <= 0
  THEN TextFit(Frac(12, 1), 2 * box.x + box.width, Frac(box.y + box.height, 1))
  ELSE FitAtSize(text, metrics, box,
                 ClampedFontSize(text, box, measureTextSvg(text, metrics, Frac(100, 1))))

\* The arguments of the calls: texts by their length, the boxes, and what the
\* browser measures for the text at size 100.
TextLengths == {0, 1, 8, 120}
FitBoxXs == {0, 7}
FitBoxWidths == {0 - 5, 0, 1, 58, 1300}
FitBoxHeights == {0 - 3, 0, 1, 2, 8, 2500}
FitMetrics == {NoTextBox, TextBox(400, 110, 0 - 85), TextBox(0, 110, 0 - 85)}
FitBoxes ==
  {[x |-> x, y |-> 50, width |-> w, height |-> h] :
     x \in FitBoxXs, w \in FitBoxWidths, h \in FitBoxHeights}

NoTextFit == TextFit(Frac(0, 1), 0, Frac(0, 1))

FitIdle ==
  /\ fitText = [length |-> 0]
  /\ fitMetrics = NoTextBox
  /\ fitBox = [x |-> 0, y |-> 0, width |-> 0, height |-> 0]
  /\ fitResult = NoTextFit
  /\ fitPhase = "idle"

\* A caller holds the arguments of a calculateTextFit call.
FitInit ==
  /\ fitText \in {[length |-> n] : n \in TextLengths}
  /\ fitMetrics \in FitMetrics
  /\ fitBox \in FitBoxes
  /\ fitResult = NoTextFit
  /\ fitPhase = "input"

\* calculateTextFit(fitText, fontFamily, fitBox) runs.
FitCall ==
  /\ fitPhase = "input"
  /\ fitResult' = calculateTextFit(fitText, fitMetrics, fitBox)
  /\ fitPhase' = "done"
  /\ UNCHANGED <<fitText, fitMetrics, fitBox>>
  /\ UNCHANGED otherThanFit

(***************************************************************************)
(* Ornament hole removal                                                   *)
(***************************************************************************)

FracAdd(a, b) == Frac(a.num * b.den + b.num * a.den, a.den * b.den)

\* One subpath of a d attribute (an M...Z block): its text, whether
\* isClosedPath holds for it, and what measurePathBBoxForD gives for it.
Subpath(text, closed, bbox) == [text |-> text, closed |-> closed, bbox |-> bbox]

\* A path element with the given subpaths in its d attribute.
PathOf(shape, subpaths) ==
  [shape EXCEPT
     !.subpaths = subpaths,
     !.bbox = UnionBox({subpaths[i].bbox : i \in 1..Len(subpaths)} \ {NoBox})]

\* The tests a hole candidate passes: between 2% and 10% of the smaller
\* viewBox side, nearly circular, centred within 10% and in the top 15%.
HoleSizeOk(bbox, vb, maxDim) ==
  /\ 100 * maxDim >= 2 * Min(vb.width, vb.height)
  /\ 100 * maxDim <= 10 * Min(vb.width, vb.height)
HoleAspectOk(bbox) ==
  /\ bbox.height > 0
  /\ 100 * bbox.width >= 85 * bbox.height
  /\ 100 * bbox.width <= 118 * bbox.height
HolePositionOk(bbox, vb) ==
  /\ 10 * Abs(2 * bbox.x + bbox.width - 2 * vb.x - vb.width) <= 2 * vb.width
  /\ 100 * (2 * bbox.y + bbox.height - 2 * vb.y) >= 0 - 10 * vb.height
  /\ 100 * (2 * bbox.y + bbox.height - 2 * vb.y) <= 30 * vb.height

\* dx * 2.0 + dyTop * top + roundPenalty * 1.2 + sizeRatio * size, with the
\* weights top and size given in tenths.
HoleScore(bbox, vb, maxDim, topTenths, sizeTenths) ==
  FracAdd(FracAdd(Frac(2 * Abs(2 * bbox.x + bbox.width - 2 * vb.x - vb.width), 2 * vb.width),
                  Frac(topTenths * (2 * bbox.y + bbox.height - 2 * vb.y), 20 * vb.height)),
          FracAdd(Frac(12 * Abs(bbox.height - bbox.width), 10 * bbox.height),
                  Frac(sizeTenths * maxDim, 10 * Min(vb.width, vb.height))))

\* A subpath that removeOrnamentHoleFromPathSubpaths takes as a candidate.
IsHoleSubpath(seg, vb) ==
  /\ seg.closed
  /\ ~seg.bbox.isNull
  /\ HoleSizeOk(seg.bbox, vb, Greatest({seg.bbox.width, seg.bbox.height}))
  /\ HoleAspectOk(seg.bbox)
  /\ HolePositionOk(seg.bbox, vb)

HoleCandidate(el, i, vb) ==
  [pathId |-> el.id, segIndex |-> i,
   score |-> HoleScore(el.subpaths[i].bbox, vb,
                       Greatest({el.subpaths[i].bbox.width, el.subpaths[i].bbox.height}),
                       24, 5)]

RECURSIVE SubpathCandidates(_, _, _)
\* for (let i = 0; i < segments.length; i++): the candidates of one path.
SubpathCandidates(el, vb, i) ==
  IF i > Len(el.subpaths) THEN << >>
  ELSE (IF IsHoleSubpath(el.subpaths[i], vb) THEN <<HoleCandidate(el, i, vb)>> ELSE << >>)
         \o SubpathCandidates(el, vb, i + 1)

RECURSIVE AllCandidates(_, _)
\* for (const pathEl of paths): the candidates of all paths, in document
\* order; a path with fewer than 2 subpaths has none.
AllCandidates(els, vb) ==
  IF els = << >> THEN << >>
  ELSE (IF Head(els).tag = "path" /\ Len(Head(els).subpaths) >= 2
        THEN SubpathCandidates(Head(els), vb, 1) ELSE << >>)
         \o AllCandidates(Tail(els), vb)

\* The place of candidate k after allCandidates.sort by score; the sort keeps
\* the order of candidates of equal score.
SortedPlace(candidates, k) ==
  Cardinality({j \in 1..Len(candidates) :
                 \/ FracLess(candidates[j].score, candidates[k].score)
                 \/ candidates[j].score = candidates[k].score /\ j < k}) + 1

\* allCandidates.slice(0, 3)
MaxHolesRemoved == 3
ToRemove(candidates) ==
  {candidates[k] : k \in {j \in 1..Len(candidates) :
                            SortedPlace(candidates, j) <= MaxHolesRemoved}}

\* holesByPath.get(pathEl): the subpath indices to remove from one path.
SegIndices(toRemove, el) == {c.segIndex : c \in {r \in toRemove : r.pathId = el.id}}

\* segments.splice(idx, 1)
SpliceOut(segments, idx) ==
  IF idx <= Len(segments)
  THEN [j \in 1..(Len(segments) - 1) |-> IF j < idx THEN segments[j] ELSE segments[j + 1]]
  ELSE segments

RECURSIVE SpliceAscending(_, _)
\* The splices from the smallest index up, each index as it was collected.
SpliceAscending(segments, indices) ==
  IF indices = {} THEN segments
  ELSE SpliceAscending(SpliceOut(segments, Least(indices)), indices \ {Least(indices)})

RECURSIVE SpliceDescending(_, _)
\* for (const idx of sortedIndices): the splices from the largest index down.
SpliceDescending(segments, indices) ==
  IF indices = {} THEN segments
  ELSE SpliceDescending(SpliceOut(segments, Greatest(indices)),
                        indices \ {Greatest(indices)})

\* One element after the pass: an affected path has its d rewritten.
WithoutHoles(el, toRemove) ==
  IF el.tag = "path" /\ SegIndices(toRemove, el) # {} /\ Len(el.subpaths) >= 2
  THEN PathOf(el, SpliceDescending(el.subpaths, SegIndices(toRemove, el)))
  ELSE el

RewritePaths(nodes, toRemove) ==
  [i \in 1..Len(nodes) |->
     IF nodes[i].tag = "g"
     THEN [nodes[i] EXCEPT
             !.children = [j \in 1..Len(nodes[i].children) |->
                             WithoutHoles(nodes[i].children[j], toRemove)]]
     ELSE WithoutHoles(nodes[i], toRemove)]

removeOrnamentHoleFromPathSubpaths(nodes, vb) ==
  RewritePaths(nodes, ToRemove(AllCandidates(QueryAll(nodes), vb)))

\* The subpaths of the documents: two holes at the top centre, a wider one
\* that scores higher, a letter counter lower down, the outline, and a hole
\* left open.
HoleA == Subpath("A", TRUE, Box(47, 2, 6, 6))
HoleB == Subpath("B", TRUE, Box(46, 4, 8, 8))
HoleC == Subpath("C", TRUE, Box(47, 2, 6, 6))
Counter == Subpath("D", TRUE, Box(47, 40, 6, 6))
Outline == Subpath("E", TRUE, Box(0, 0, 100, 100))
OpenHole == Subpath("F", FALSE, Box(47, 2, 6, 6))
Unmeasured == Subpath("G", TRUE, NoBox)
SubpathPool == {HoleA, HoleB, HoleC, Counter, Outline, OpenHole, Unmeasured}

MaxSubpaths == 3
RECURSIVE SubpathSeqs(_)
SubpathSeqs(n) ==
  IF n = 0 THEN {<< >>}
  ELSE {Append(q, e) : q \in SubpathSeqs(n - 1), e \in SubpathPool}
HolePaths ==
  {PathOf(Shape("path", << >>, NoPaint, Paint(NoColor, Black, ""), TRUE), q) :
     q \in UNION {SubpathSeqs(n) : n \in 0..MaxSubpaths}}
HoleNodeLists ==
  {WithIds(<<p>>) : p \in {h \in HolePaths : Len(h.subpaths) = MaxSubpaths}}
    \cup {WithIds(<<p, Group(<<q>>)>>) :
            p \in {h \in HolePaths : Len(h.subpaths) \in {1, 2}},
            q \in {h \in HolePaths : Len(h.subpaths) = MaxSubpaths
                                       /\ \A i \in 1..MaxSubpaths : h.subpaths[i].closed}}
HoleViewBox == Box(0, 0, 100, 100)

HoleIdle ==
  /\ holeNodes = << >>
  /\ holeResult = << >>
  /\ holePhase = "idle"

\* The imported document before the compound-path pass of hole removal.
HoleInit ==
  /\ holeNodes \in HoleNodeLists
  /\ holeResult = << >>
  /\ holePhase = "input"

\* removeOrnamentHoleFromPathSubpaths(imported, vb) runs.
HoleCall ==
  /\ holePhase = "input"
  /\ holeResult' = removeOrnamentHoleFromPathSubpaths(holeNodes, HoleViewBox)
  /\ holePhase' = "done"
  /\ UNCHANGED holeNodes
  /\ UNCHANGED otherThanHole

(***************************************************************************)
(* The steps of processLayersForPanel                                      *)
(***************************************************************************)

\* An element that the second method of removeOrnamentHoleIfFound scores.
IsStandaloneHole(el, vb) ==
  /\ el.tag \in {"circle", "ellipse", "path", "rect", "use", "polygon"}
  /\ ~el.bbox.isNull
  /\ Greatest({el.bbox.width, el.bbox.height}) > 0
  /\ HoleSizeOk(el.bbox, vb, Greatest({el.bbox.width, el.bbox.height}))
  /\ HoleAspectOk(el.bbox)
  /\ HolePositionOk(el.bbox, vb)

RECURSIVE Scored(_, _)
\* for (const el of candidates): the scored elements, in document order.
Scored(els, vb) ==
  IF els = << >> THEN << >>
  ELSE (IF IsStandaloneHole(Head(els), vb)
        THEN <<[id |-> Head(els).id,
                score |-> HoleScore(Head(els).bbox, vb,
                                    Greatest({Head(els).bbox.width, Head(els).bbox.height}),
                                    22, 6)]>>
        ELSE << >>) \o Scored(Tail(els), vb)

\* The (at most 2) best scored elements; each is removed unless its centre
\* is below the middle of the viewBox.
MaxStandaloneRemoved == 2
BestScoredIds(scored) ==
  {scored[k].id : k \in {j \in 1..Len(scored) :
                           SortedPlace(scored, j) <= MaxStandaloneRemoved}}
IsBelowMiddle(el, vb) == 2 * el.bbox.y + el.bbox.height - 2 * vb.y > vb.height
IsHoleToRemove(el, vb, ids) == el.id \in ids /\ ~el.bbox.isNull /\ ~IsBelowMiddle(el, vb)

RemoveHoleElements(nodes, vb, ids) ==
  SelectSeq([i \in 1..Len(nodes) |->
               IF nodes[i].tag = "g"
               THEN [nodes[i] EXCEPT
                       !.children = SelectSeq(nodes[i].children,
                                              LAMBDA el : ~IsHoleToRemove(el, vb, ids))]
               ELSE nodes[i]],
            LAMBDA n : n.tag = "g" \/ ~IsHoleToRemove(n, vb, ids))

RemoveStandaloneHoles(nodes, vb) ==
  RemoveHoleElements(nodes, vb, BestScoredIds(Scored(QueryAll(nodes), vb)))

\* removeOrnamentHoleIfFound: the compound-path pass, then the standalone
\* elements.
removeOrnamentHoleIfFound(nodes, vb) ==
  RemoveStandaloneHoles(removeOrnamentHoleFromPathSubpaths(nodes, vb), vb)

\* A stroked path that reaches into the top 15% of the viewBox and spans at
\* least 70% of its smaller side (every path of the documents has a d).
HasHoleGeometry(el, vb) ==
  /\ el.tag = "path"
  /\ HasValue(el.attr.stroke) /\ ~IsNoneText(el.attr.stroke)
  /\ ~el.bbox.isNull
  /\ 100 * (el.bbox.y - vb.y) <= 15 * vb.height
  /\ 10 * Greatest({el.bbox.width, el.bbox.height}) >= 7 * Min(vb.width, vb.height)

\* The cover circle: its centre and radius in hundredths.
NoCover == [present |-> FALSE, cx100 |-> 0, cy100 |-> 0, r100 |-> 0]
coverOrnamentHoleWithBackground(nodes, vb) ==
  IF \E i \in 1..Len(QueryAll(nodes)) : HasHoleGeometry(QueryAll(nodes)[i], vb)
  THEN [present |-> TRUE, cx100 |-> 100 * vb.x + 50 * vb.width,
        cy100 |-> 100 * vb.y + 6 * vb.height, r100 |-> 5 * Min(vb.width, vb.height)]
  ELSE NoCover

\* ProcessingOptions with ornament-hole removal.
StepOptions(removeOrnamentHole, addRoundBacker) ==
  [removeOrnamentHole |-> removeOrnamentHole, addRoundBacker |-> addRoundBacker,
   roundBackerStrokeWidth |-> "0.5"]

\* One entry of the record of steps done: the step, and whether the style
\* block and the class and style attributes were still there when it ran.
StepDone(step, styled) == [step |-> step, styled |-> styled]

\* The elements of the documents.
StepShapes ==
  {ShapeAt(Shape("circle", << >>, NoPaint, Paint(None, Blue, "0.5"), FALSE),
           Box(10, 10, 80, 90)),
   ShapeAt(Shape("path", <<"st0">>, NoPaint, NoPaint, TRUE), Box(20, 20, 60, 60)),
   ShapeAt(Shape("circle", << >>, NoPaint, Paint(None, Black, "0.5"), FALSE),
           Box(47, 2, 6, 6)),
   PathOf(Shape("path", << >>, NoPaint, Paint(Green, NoColor, ""), TRUE),
          <<Outline, HoleA>>),
   ShapeAt(Shape("path", << >>, NoPaint, Paint(None, Black, "1"), FALSE),
           Box(0, 0, 100, 100)),
   ShapeAt(Shape("path", << >>, NoPaint, Paint(None, Red, ""), FALSE), Box(30, 30, 20, 20))}
MaxStepNodes == 2
RECURSIVE StepNodeSeqs(_)
StepNodeSeqs(n) ==
  IF n = 0 THEN {<< >>}
  ELSE {Append(q, e) : q \in StepNodeSeqs(n - 1), e \in StepShapes}
StepDocs ==
  {SvgDoc(frame, AbsentDim, AbsentDim, <<StyleRule("st0", None, BlueUpper, "0.5")>>,
          WithIds(q)) :
     frame \in {ViewBoxText(<<NumTok(0), NumTok(0), NumTok(120), NumTok(120)>>),
                AbsentViewBox},
     q \in UNION {StepNodeSeqs(n) : n \in 1..MaxStepNodes}}

StepIdle ==
  /\ stepDoc = SvgDoc(AbsentViewBox, AbsentDim, AbsentDim, << >>, << >>)
  /\ stepLayers = NullLayers
  /\ stepOptions = StepOptions(FALSE, FALSE)
  /\ stepNodes = << >>
  /\ stepStyled = FALSE
  /\ stepCut = NoCut
  /\ stepBacker = NoBacker
  /\ stepCover = NoCover
  /\ stepLog = << >>
  /\ stepPc = "idle"

\* processLayersForPanel has parsed the markup and imported the svg element.
StepInit ==
  /\ stepDoc \in StepDocs
  /\ stepLayers \in BackerLayerInputs
  /\ stepOptions \in {StepOptions(hole, backer) : hole \in BOOLEAN, backer \in BOOLEAN}
  /\ stepNodes = stepDoc.nodes
  /\ stepStyled = TRUE
  /\ stepCut = NoCut
  /\ stepBacker = NoBacker
  /\ stepCover = NoCover
  /\ stepLog = << >>
  /\ stepPc = "hole"

\* if (removeOrnamentHole && viewBox) removeOrnamentHoleIfFound(imported, viewBox)
StepHole ==
  /\ stepPc = "hole"
  /\ \/ /\ stepOptions.removeOrnamentHole /\ ~getSvgViewBox(stepDoc).isNull
        /\ stepNodes' = removeOrnamentHoleIfFound(stepNodes, getSvgViewBox(stepDoc))
        /\ stepLog' = Append(stepLog, StepDone("hole", stepStyled))
     \/ /\ ~(stepOptions.removeOrnamentHole /\ ~getSvgViewBox(stepDoc).isNull)
        /\ UNCHANGED <<stepNodes, stepLog>>
  /\ stepPc' = "cut"
  /\ UNCHANGED <<stepDoc, stepLayers, stepOptions, stepStyled, stepCut, stepBacker, stepCover>>
  /\ UNCHANGED otherThanStep

\* StepCut looking for the cut line in what layer filtering would leave.
StepCut_AfterFiltering ==
  /\ stepPc = "cut"
  /\ \/ /\ stepOptions.addRoundBacker /\ ~getSvgViewBox(stepDoc).isNull
        /\ stepCut' = detectCutLineBbox(LayerTransform(stepNodes, stepDoc.styleRules,
                                                       stepLayers), << >>)
        /\ stepLog' = Append(stepLog, StepDone("cut", stepStyled))
     \/ /\ ~(stepOptions.addRoundBacker /\ ~getSvgViewBox(stepDoc).isNull)
        /\ UNCHANGED <<stepCut, stepLog>>
  /\ stepPc' = "filter"
  /\ UNCHANGED <<stepDoc, stepLayers, stepOptions, stepNodes, stepStyled, stepBacker,
                 stepCover>>
  /\ UNCHANGED otherThanStep

\* if (addRoundBacker && viewBox) savedCutLineBbox = detectCutLineBbox(imported, styleMap)
StepCut ==
  /\ stepPc = "cut"
  /\ \/ /\ stepOptions.addRoundBacker /\ ~getSvgViewBox(stepDoc).isNull
        /\ stepCut' = detectCutLineBbox(stepNodes, stepDoc.styleRules)
        /\ stepLog' = Append(stepLog, StepDone("cut", stepStyled))
     \/ /\ ~(stepOptions.addRoundBacker /\ ~getSvgViewBox(stepDoc).isNull)
        /\ UNCHANGED <<stepCut, stepLog>>
  /\ stepPc' = "filter"
  /\ UNCHANGED <<stepDoc, stepLayers, stepOptions, stepNodes, stepStyled, stepBacker,
                 stepCover>>
  /\ UNCHANGED otherThanStep

\* The style block is removed, every candidate is transformed, the marked
\* elements and the empty groups are removed.
StepFilter ==
  /\ stepPc = "filter"
  /\ stepNodes' = LayerTransform(stepNodes, stepDoc.styleRules, stepLayers)
  /\ stepStyled' = FALSE
  /\ stepLog' = Append(stepLog, StepDone("filter", stepStyled))
  /\ stepPc' = "backer"
  /\ UNCHANGED <<stepDoc, stepLayers, stepOptions, stepCut, stepBacker, stepCover>>
  /\ UNCHANGED otherThanStep

\* if (addRoundBacker && viewBox) addRoundBackerOutline(...)
StepBacker ==
  /\ stepPc = "backer"
  /\ \/ /\ stepOptions.addRoundBacker /\ ~getSvgViewBox(stepDoc).isNull
        /\ stepNodes' =
             addRoundBackerOutline(stepNodes, getSvgViewBox(stepDoc), stepDoc.styleRules,
                                   stepOptions.roundBackerStrokeWidth, stepCut).nodes
        /\ stepBacker' =
             addRoundBackerOutline(stepNodes, getSvgViewBox(stepDoc), stepDoc.styleRules,
                                   stepOptions.roundBackerStrokeWidth, stepCut).backer
        /\ stepLog' = Append(stepLog, StepDone("backer", stepStyled))
     \/ /\ ~(stepOptions.addRoundBacker /\ ~getSvgViewBox(stepDoc).isNull)
        /\ UNCHANGED <<stepNodes, stepBacker, stepLog>>
  /\ stepPc' = "cover"
  /\ UNCHANGED <<stepDoc, stepLayers, stepOptions, stepStyled, stepCut, stepCover>>
  /\ UNCHANGED otherThanStep

\* if (removeOrnamentHole && !addRoundBacker && viewBox)
\*   coverOrnamentHoleWithBackground(imported, viewBox); then the content is
\* returned.
StepCover ==
  /\ stepPc = "cover"
  /\ \/ /\ stepOptions.removeOrnamentHole /\ ~stepOptions.addRoundBacker
        /\ ~getSvgViewBox(stepDoc).isNull
        /\ stepCover' = coverOrnamentHoleWithBackground(stepNodes, getSvgViewBox(stepDoc))
        /\ stepLog' = Append(stepLog, StepDone("cover", stepStyled))
     \/ /\ ~(/\ stepOptions.removeOrnamentHole /\ ~stepOptions.addRoundBacker
             /\ ~getSvgViewBox(stepDoc).isNull)
        /\ UNCHANGED <<stepCover, stepLog>>
  /\ stepPc' = "done"
  /\ UNCHANGED <<stepDoc, stepLayers, stepOptions, stepNodes, stepStyled, stepCut,
                 stepBacker>>
  /\ UNCHANGED otherThanStep

StepNext == StepHole \/ StepCut \/ StepFilter \/ StepBacker \/ StepCover

(***************************************************************************)
(* The composer: the art box of a cell and the transform of an item        *)
(***************************************************************************)

\* A number that an IEEE computation gives: finite with its value, or
\* Infinity, -Infinity or NaN.
Finite(f) == [kind |-> "finite", value |-> f]
NotFinite(kind) == [kind |-> kind, value |-> Frac(0, 1)]

\* a / b for whole a and b.
Quotient(a, b) ==
  IF b > 0 THEN Finite(Frac(a, b))
  ELSE IF b < 0 THEN Finite(Frac(0 - a, 0 - b))
  ELSE NotFinite(QuotientKind(a, b))

\* Math.min(p, q)
MathMin(p, q) ==
  IF p.kind = "NaN" \/ q.kind = "NaN" THEN NotFinite("NaN")
  ELSE IF p.kind = "-Infinity" \/ q.kind = "Infinity" THEN p
  ELSE IF q.kind = "-Infinity" \/ p.kind = "Infinity" THEN q
  ELSE Finite(FracMin(p.value, q.value))

\* b * s for a whole b.
Times(b, s) ==
  IF ProductKind("finite", b, s.kind, s.value.num) = "finite"
  THEN Finite(Frac(b * s.value.num, s.value.den))
  ELSE NotFinite(ProductKind("finite", b, s.kind, s.value.num))

\* (a - s) / 2 for a whole a.
HalfOfRest(a, s) ==
  IF s.kind = "finite" THEN Finite(Frac(a * s.value.den - s.value.num, 2 * s.value.den))
  ELSE IF s.kind = "Infinity" THEN NotFinite("-Infinity")
  ELSE IF s.kind = "-Infinity" THEN NotFinite("Infinity")
  ELSE NotFinite("NaN")

\* f + s for a finite f.
Plus(f, s) == IF s.kind = "finite" THEN Finite(FracAdd(f, s.value)) ELSE s

\* The settings that the composer reads for a cell.
ComposeSettings(labelHeightMm, paddingMm, artWidthMm, artHeightMm) ==
  [labelHeightMm |-> labelHeightMm, paddingMm |-> paddingMm, artWidthMm |-> artWidthMm,
   artHeightMm |-> artHeightMm]

\* artRegion: the cell without the label strip at its bottom.
ArtRegion(placement, settings) ==
  [x |-> placement.x, y |-> placement.y, width |-> placement.size,
   height |-> IF placement.size - settings.labelHeightMm > 0
              THEN placement.size - settings.labelHeightMm ELSE 0]

\* Math.max(0, exactArtW) and Math.max(0, exactArtH)
ArtBoxSide(exact, regionSide, padding) ==
  IF (IF exact.isNull THEN regionSide - padding * 2 ELSE exact.n) > 0
  THEN (IF exact.isNull THEN regionSide - padding * 2 ELSE exact.n)
  ELSE 0

\* artBox: x and y may be halves.
ArtBoxIn(region, w, h) ==
  [x |-> Frac(2 * region.x + region.width - w, 2),
   y |-> Frac(2 * region.y + region.height - h, 2), width |-> w, height |-> h]
ArtBox(region, settings) ==
  ArtBoxIn(region, ArtBoxSide(settings.artWidthMm, region.width, settings.paddingMm),
           ArtBoxSide(settings.artHeightMm, region.height, settings.paddingMm))

\* scale
ScaleOf(artBox, bounds) ==
  MathMin(Quotient(artBox.width, bounds.width), Quotient(artBox.height, bounds.height))

\* The transform of an item: translate(translateX, translateY) scale(scale)
\* translate(-bounds.x, -bounds.y).
TransformWith(artBox, bounds, scale) ==
  [translateX |-> Plus(artBox.x, HalfOfRest(artBox.width, Times(bounds.width, scale))),
   translateY |-> Plus(artBox.y, HalfOfRest(artBox.height, Times(bounds.height, scale))),
   scale |-> scale, backX |-> 0 - bounds.x, backY |-> 0 - bounds.y]

\* What the composer works out for one item.
Composed(region, artBox, bounds) ==
  [artRegion |-> region, artBox |-> artBox, bounds |-> bounds,
   transform |-> TransformWith(artBox, bounds, ScaleOf(artBox, bounds))]
ComposeItem(parsed, placement, settings) ==
  Composed(ArtRegion(placement, settings),
           ArtBox(ArtRegion(placement, settings), settings), BoundsOf(parsed))

\* The files, cells and settings of the calls.
ComposeFrames ==
  {ViewBoxText(<<NumTok(0), NumTok(0), NumTok(40), NumTok(40)>>),
   ViewBoxText(<<NumTok(5), NumTok(5), NumTok(20), NumTok(40)>>),
   ViewBoxText(<<NumTok(0), NumTok(0), NumTok(0), NumTok(40)>>),
   ViewBoxText(<<NumTok(0), NumTok(0), NumTok(0), NumTok(0)>>),
   ViewBoxText(<<NumTok(0), NumTok(0), NumTok(0 - 10), NumTok(40)>>)}
ComposeContents ==
  {<< >>,
   <<Shape("path", << >>, NoPaint, Paint(Green, NoColor, ""), TRUE)>>,
   <<ShapeAt(Shape("path", << >>, NoPaint, Paint(Green, NoColor, ""), TRUE),
             Box(2, 3, 30, 10))>>}
ComposeFiles ==
  {MarkupFile(SvgDoc(frame, AbsentDim, AbsentDim, << >>, WithIds(q)), FALSE, measurable) :
     frame \in ComposeFrames, q \in ComposeContents, measurable \in BOOLEAN}
ComposeCells == {[indexInPanel |-> 0, x |-> 5, y |-> y, size |-> 50] : y \in {5, 60}}
ComposeSettingsInputs ==
  {ComposeSettings(l, p, w, h) :
     l \in {0, 8, 60}, p \in {0, 2},
     w \in {NoNumber, SomeNumber(0), SomeNumber(30), SomeNumber(70)},
     h \in {NoNumber, SomeNumber(30)}}
NoComposed ==
  Composed(Box(0, 0, 0, 0), ArtBoxIn(Box(0, 0, 0, 0), 0, 0), NoBox)

ComposeIdle ==
  /\ composeFile = MarkupFile(GoodMarkup, FALSE, FALSE)
  /\ composeCell = [indexInPanel |-> 0, x |-> 0, y |-> 0, size |-> 0]
  /\ composeSettings = ComposeSettings(0, 0, NoNumber, NoNumber)
  /\ composeResult = NoComposed
  /\ composePhase = "idle"

\* The item loop is at an item of a file that reads and parses.
ComposeInit ==
  /\ composeFile \in ComposeFiles
  /\ composeCell \in ComposeCells
  /\ composeSettings \in ComposeSettingsInputs
  /\ composeResult = NoComposed
  /\ composePhase = "ready"

\* One pass of the item loop with an empty cache and no layer settings.
ComposeCall ==
  /\ composePhase = "ready"
  /\ composeResult' =
       ComposeItem(AfterItem(<< >>, <<composeFile>>, 1, RunSettings(NullLayers, FALSE))[1],
                   composeCell, composeSettings)
  /\ composePhase' = "done"
  /\ UNCHANGED <<composeFile, composeCell, composeSettings>>
  /\ UNCHANGED otherThanCompose

(***************************************************************************)
(* Generator page                                                          *)
(***************************************************************************)

\* A message state (genError, exportMessage, scanError) that is null.
NoMessage == "null"

\* A panel list state (generatedPanels, pendingExportPanels): null or a list.
NullPanels == [isNull |-> TRUE, panels |-> << >>]
SomePanels(panels) == [isNull |-> FALSE, panels |-> panels]

\* scan: null, or a ScanResult whose files are the paths of its fileMap.
NullScan == [isNull |-> TRUE, fileMap |-> << >>]
ScanResult(fileMap) == [isNull |-> FALSE, fileMap |-> fileMap]

\* The sizes typed into the panel width and height inputs; the art size 50,
\* the label height 10, the padding 0 and the gutter 0 stay as constructed.
PageWidths == {0 - 60, 10, 300}
PageHeights == {0 - 60, 300}
ArtSizeMm == 50
LabelHeightMm == 10
PaddingMm == 0

\* cellSizeMm = Math.max(artWidthMm, artHeightMm) + paddingMm * 2 + labelHeightMm
CellSizeMm == ArtSizeMm + PaddingMm * 2 + LabelHeightMm

\* The settings object handed to buildPanelSvgs; layerSettings stays null.
PageBuildSettings(w, h) ==
  [panelWidthMm |-> w, panelHeightMm |-> h, cellSizeMm |-> CellSizeMm, marginMm |-> 0,
   gutterMm |-> 0, layerSettings |-> NullLayers]

\* const grid = useMemo(() => computeGridLayout(...))
PageGrid(w, h) == computeGridLayout(GridSettingsOf(PageBuildSettings(w, h)))

\* layoutWarning, NoMessage when null.
LayoutWarning(w, h, capacityPerPanel) ==
  IF w <= 0 \/ h <= 0 THEN "Panel width/height must be > 0."
  ELSE IF ArtSizeMm <= 0 THEN "Art width/height must be > 0."
  ELSE IF LabelHeightMm < 0 THEN "Label height must be >= 0."
  ELSE IF PaddingMm < 0 THEN "Padding must be >= 0."
  ELSE IF capacityPerPanel <= 0
    THEN "Grid does not fit: increase panel size, reduce margins/gutter, or reduce art size."
  ELSE NoMessage

RECURSIVE SortedPaths(_)
\* The paths of a set in ascending order.
SortedPaths(paths) ==
  IF paths = {} THEN << >>
  ELSE LET least == CHOOSE k \in paths : \A j \in paths : k <= j
       IN <<[path |-> least]>> \o SortedPaths(paths \ {least})

\* selectedFiles: the scanned files whose path is selected, sorted by path.
SelectedFiles(scanned, selected) ==
  IF scanned.isNull THEN << >> ELSE SortedPaths(DOMAIN scanned.fileMap \cap selected)

\* currentKey of generatePanels, null for lastGenerationKey before a build.
GenerationKey(files, w, h) ==
  [isNull |-> FALSE, files |-> files, panelWidthMm |-> w, panelHeightMm |-> h]
NullKey == [isNull |-> TRUE, files |-> << >>, panelWidthMm |-> 0, panelHeightMm |-> 0]

\* An awaited buildPanelSvgs call with the arguments its handler captured.
NoCall ==
  [active |-> FALSE, selected |-> << >>, settings |-> PageBuildSettings(300, 300),
   fileMap |-> << >>, key |-> NullKey]
BuildCallOf(selected, w, h, fileMap) ==
  [active |-> TRUE, selected |-> selected, settings |-> PageBuildSettings(w, h),
   fileMap |-> fileMap, key |-> GenerationKey(selected, w, h)]

\* An awaited downloadPanelSvgs call with the panels it was given.
NoDownload == [active |-> FALSE, panels |-> << >>]
DownloadOf(p) == [active |-> TRUE, panels |-> p.panels]

\* An awaited scan and what it will settle with: "files", "empty" or "error".
NoScanCall == [active |-> FALSE, outcome |-> "files", fileMap |-> << >>]
ScanCallOf(outcome, fileMap) == [active |-> TRUE, outcome |-> outcome, fileMap |-> fileMap]

\* The scans a drop can give: up to MaxFiles files of which at most one is bad.
MaxFiles == 1
MaxDrops == 1
ScanFileMaps ==
  {FileMapOf(n, bad, kind) :
     n \in 1..MaxFiles, bad \in 0..MaxFiles, kind \in BadFileKinds \ {"missing"}}

\* The preview modal is rendered.
PreviewModalShown ==
  showPreviewModal /\ ~generatedPanels.isNull /\ Len(generatedPanels.panels) > 0

PageInit ==
  /\ scan = NullScan
  /\ isScanning = FALSE
  /\ scanError = NoMessage
  /\ selectedPaths = {}
  /\ panelWidthMm = 300
  /\ panelHeightMm = 300
  /\ isGenerating = FALSE
  /\ genError = NoMessage
  /\ generatedPanels = NullPanels
  /\ lastGenerationKey = NullKey
  /\ isExporting = FALSE
  /\ exportMessage = NoMessage
  /\ showExportModal = FALSE
  /\ pendingExportPanels = NullPanels
  /\ showPreviewModal = FALSE
  /\ scanCall = NoScanCall
  /\ generateCall = NoCall
  /\ exportCall = NoCall
  /\ downloadCall = NoDownload
  /\ dropCount = 0

\* handleDrop up to its await; one scan is followed at a time, and a run has
\* at most MaxDrops drops.
HandleDrop ==
  /\ ~scanCall.active
  /\ dropCount < MaxDrops
  /\ dropCount' = dropCount + 1
  /\ scanError' = NoMessage
  /\ isScanning' = TRUE
  /\ \/ \E fileMap \in ScanFileMaps : scanCall' = ScanCallOf("files", fileMap)
     \/ scanCall' = ScanCallOf("empty", << >>)
     \/ scanCall' = ScanCallOf("error", << >>)
  /\ UNCHANGED <<scan, selectedPaths, panelWidthMm, panelHeightMm, isGenerating, genError,
                 generatedPanels, lastGenerationKey, isExporting, exportMessage,
                 showExportModal, pendingExportPanels, showPreviewModal, generateCall,
                 exportCall, downloadCall>>
  /\ UNCHANGED otherThanPage

\* handleDrop up to its await in a run where a second folder can be dropped:
\* the folders hold one file, with different markup.
MaxFolderDrops == 2
FolderFileMaps == {<<FileOf(TRUE, GoodMarkup)>>, <<FileOf(TRUE, OtherMarkup)>>}
DropFolder ==
  /\ ~scanCall.active
  /\ dropCount < MaxFolderDrops
  /\ dropCount' = dropCount + 1
  /\ scanError' = NoMessage
  /\ isScanning' = TRUE
  /\ \/ \E fileMap \in FolderFileMaps : scanCall' = ScanCallOf("files", fileMap)
     \/ scanCall' = ScanCallOf("empty", << >>)
     \/ scanCall' = ScanCallOf("error", << >>)
  /\ UNCHANGED <<scan, selectedPaths, panelWidthMm, panelHeightMm, isGenerating, genError,
                 generatedPanels, lastGenerationKey, isExporting, exportMessage,
                 showExportModal, pendingExportPanels, showPreviewModal, generateCall,
                 exportCall, downloadCall>>
  /\ UNCHANGED otherThanPage

\* handleDrop after the scan settles: processScanResult for a result with
\* files (the art size measured on the first file is the one already set),
\* the message for a result without files, the catch block for a failure.
ScanSettles ==
  /\ scanCall.active
  /\ scanCall' = NoScanCall
  /\ isScanning' = FALSE
  /\ \/ /\ scanCall.outcome = "files"
        /\ scan' = ScanResult(scanCall.fileMap)
        /\ selectedPaths' = {}
        /\ generatedPanels' = NullPanels
        /\ lastGenerationKey' = NullKey
        /\ UNCHANGED scanError
     \/ /\ scanCall.outcome = "empty"
        /\ scanError' = "No SVG files found in the dropped items. Try dropping a folder containing SVG files."
        /\ UNCHANGED <<scan, selectedPaths, generatedPanels, lastGenerationKey>>
     \/ /\ scanCall.outcome = "error"
        /\ scan' = NullScan
        /\ selectedPaths' = {}
        /\ generatedPanels' = NullPanels
        /\ lastGenerationKey' = NullKey
        /\ scanError' = "The scan failed"
  /\ UNCHANGED <<panelWidthMm, panelHeightMm, isGenerating, genError, isExporting,
                 exportMessage, showExportModal, pendingExportPanels, showPreviewModal,
                 generateCall, exportCall>>
  /\ UNCHANGED <<dropCount, downloadCall, otherThanPage>>

\* toggleSelected(path) on a row of the file list.
ToggleSelected ==
  /\ ~scan.isNull
  /\ \E path \in DOMAIN scan.fileMap :
       selectedPaths' = IF path \in selectedPaths THEN selectedPaths \ {path}
                        ELSE selectedPaths \cup {path}
  /\ UNCHANGED <<scan, isScanning, scanError, panelWidthMm, panelHeightMm, isGenerating,
                 genError, generatedPanels, lastGenerationKey, isExporting, exportMessage,
                 showExportModal, pendingExportPanels, showPreviewModal, scanCall,
                 generateCall, exportCall>>
  /\ UNCHANGED <<dropCount, downloadCall, otherThanPage>>

\* setPanelWidthMmRaw: the width input is never disabled.
SetPanelWidth ==
  /\ \E w \in PageWidths \ {panelWidthMm} : panelWidthMm' = w
  /\ UNCHANGED <<scan, isScanning, scanError, selectedPaths, panelHeightMm, isGenerating,
                 genError, generatedPanels, lastGenerationKey, isExporting, exportMessage,
                 showExportModal, pendingExportPanels, showPreviewModal, scanCall,
                 generateCall, exportCall>>
  /\ UNCHANGED <<dropCount, downloadCall, otherThanPage>>

\* setPanelWidthMmRaw between two widths that both give a grid with room.
FittingWidths == {120, 300}
SetFittingWidth ==
  /\ \E w \in FittingWidths \ {panelWidthMm} : panelWidthMm' = w
  /\ UNCHANGED <<scan, isScanning, scanError, selectedPaths, panelHeightMm, isGenerating,
                 genError, generatedPanels, lastGenerationKey, isExporting, exportMessage,
                 showExportModal, pendingExportPanels, showPreviewModal, scanCall,
                 generateCall, exportCall>>
  /\ UNCHANGED <<dropCount, downloadCall, otherThanPage>>

\* setPanelHeightMmRaw: the height input is never disabled.
SetPanelHeight ==
  /\ \E h \in PageHeights \ {panelHeightMm} : panelHeightMm' = h
  /\ UNCHANGED <<scan, isScanning, scanError, selectedPaths, panelWidthMm, isGenerating,
                 genError, generatedPanels, lastGenerationKey, isExporting, exportMessage,
                 showExportModal, pendingExportPanels, showPreviewModal, scanCall,
                 generateCall, exportCall>>
  /\ UNCHANGED <<dropCount, downloadCall, otherThanPage>>

\* The Preview button is enabled.
PreviewEnabled ==
  /\ ~isGenerating
  /\ SelectedFiles(scan, selectedPaths) # << >>
  /\ PageGrid(panelWidthMm, panelHeightMm).capacityPerPanel > 0

\* The Download button is enabled.
DownloadEnabled ==
  /\ ~isExporting
  /\ ~isGenerating
  /\ SelectedFiles(scan, selectedPaths) # << >>
  /\ PageGrid(panelWidthMm, panelHeightMm).capacityPerPanel > 0

\* generatePanels up to its await, from the Preview button: panels already
\* generated under the same key are shown again, otherwise a build starts.
ClickPreview ==
  /\ PreviewEnabled
  /\ IF scan.isNull
     THEN /\ genError' = "No files loaded. Please select a folder first."
          /\ UNCHANGED <<isGenerating, showPreviewModal, generateCall>>
     ELSE IF /\ ~generatedPanels.isNull
             /\ lastGenerationKey = GenerationKey(SelectedFiles(scan, selectedPaths),
                                                  panelWidthMm, panelHeightMm)
     THEN /\ showPreviewModal' = TRUE
          /\ UNCHANGED <<genError, isGenerating, generateCall>>
     ELSE /\ genError' = NoMessage
          /\ isGenerating' = TRUE
          /\ generateCall' = BuildCallOf(SelectedFiles(scan, selectedPaths), panelWidthMm,
                                         panelHeightMm, scan.fileMap)
          /\ UNCHANGED showPreviewModal
  /\ UNCHANGED <<scan, isScanning, scanError, selectedPaths, panelWidthMm, panelHeightMm,
                 generatedPanels, lastGenerationKey, isExporting, exportMessage,
                 showExportModal, pendingExportPanels, scanCall, exportCall>>
  /\ UNCHANGED <<dropCount, downloadCall, otherThanPage>>

\* The rest of generatePanels once the build has settled with built.
GenerateWith(built) ==
  /\ IF built.threw
     THEN /\ generatedPanels' = NullPanels
          /\ lastGenerationKey' = NullKey
          /\ genError' = built.error
          /\ UNCHANGED showPreviewModal
     ELSE /\ generatedPanels' = SomePanels(built.panelSvgs)
          /\ lastGenerationKey' = generateCall.key
          /\ showPreviewModal' = TRUE
          /\ UNCHANGED genError
  /\ isGenerating' = FALSE

\* The build awaited by generatePanels settles.
GenerateSettles ==
  /\ generateCall.active
  /\ GenerateWith(buildPanelSvgs(generateCall.selected, generateCall.settings,
                                 generateCall.fileMap))
  /\ generateCall' = NoCall
  /\ UNCHANGED <<scan, isScanning, scanError, selectedPaths, panelWidthMm, panelHeightMm,
                 isExporting, exportMessage, showExportModal, pendingExportPanels,
                 scanCall, exportCall>>
  /\ UNCHANGED <<dropCount, downloadCall, otherThanPage>>

\* exportPanels up to its await.
ExportStarts ==
  IF scan.isNull
  THEN /\ genError' = "No files loaded. Please select a folder first."
       /\ UNCHANGED <<exportMessage, isExporting, exportCall>>
  ELSE /\ exportMessage' = NoMessage
       /\ genError' = NoMessage
       /\ isExporting' = TRUE
       /\ exportCall' = BuildCallOf(SelectedFiles(scan, selectedPaths), panelWidthMm,
                                    panelHeightMm, scan.fileMap)

\* exportPanels from the Download button; one export is followed at a time.
ClickDownload ==
  /\ DownloadEnabled
  /\ ~exportCall.active
  /\ ExportStarts
  /\ UNCHANGED <<scan, isScanning, scanError, selectedPaths, panelWidthMm, panelHeightMm,
                 isGenerating, generatedPanels, lastGenerationKey, showExportModal,
                 pendingExportPanels, showPreviewModal, scanCall, generateCall>>
  /\ UNCHANGED <<dropCount, downloadCall, otherThanPage>>

\* The Download All button of the preview modal: setShowPreviewModal(false);
\* exportPanels().  The button has no disabled condition.
ClickDownloadAll ==
  /\ PreviewModalShown
  /\ ~exportCall.active
  /\ showPreviewModal' = FALSE
  /\ ExportStarts
  /\ UNCHANGED <<scan, isScanning, scanError, selectedPaths, panelWidthMm, panelHeightMm,
                 isGenerating, generatedPanels, lastGenerationKey, showExportModal,
                 pendingExportPanels, scanCall, generateCall>>
  /\ UNCHANGED <<dropCount, downloadCall, otherThanPage>>

\* ExportWith leaving isExporting as it is when there is nothing to export.
ExportWith_NothingKeepsExporting(built) ==
  IF built.threw
  THEN /\ exportMessage' = NoMessage
       /\ genError' = built.error
       /\ isExporting' = FALSE
       /\ UNCHANGED <<pendingExportPanels, showExportModal, generatedPanels>>
  ELSE IF built.panelSvgs = << >>
  THEN /\ exportMessage' = "Nothing to export (no panels generated)."
       /\ UNCHANGED <<genError, isExporting, pendingExportPanels, showExportModal,
                      generatedPanels>>
  ELSE /\ pendingExportPanels' = SomePanels(built.panelSvgs)
       /\ showExportModal' = TRUE
       /\ generatedPanels' = SomePanels(built.panelSvgs)
       /\ UNCHANGED <<genError, exportMessage, isExporting>>

\* The rest of exportPanels once the build has settled with built.
ExportWith(built) ==
  IF built.threw
  THEN /\ exportMessage' = NoMessage
       /\ genError' = built.error
       /\ isExporting' = FALSE
       /\ UNCHANGED <<pendingExportPanels, showExportModal, generatedPanels>>
  ELSE IF built.panelSvgs = << >>
  THEN /\ exportMessage' = "Nothing to export (no panels generated)."
       /\ isExporting' = FALSE
       /\ UNCHANGED <<genError, pendingExportPanels, showExportModal, generatedPanels>>
  ELSE /\ pendingExportPanels' = SomePanels(built.panelSvgs)
       /\ showExportModal' = TRUE
       /\ generatedPanels' = SomePanels(built.panelSvgs)
       /\ UNCHANGED <<genError, exportMessage, isExporting>>

\* The build awaited by exportPanels settles.
ExportSettles ==
  /\ exportCall.active
  /\ ExportWith(buildPanelSvgs(exportCall.selected, exportCall.settings, exportCall.fileMap))
  /\ exportCall' = NoCall
  /\ UNCHANGED <<scan, isScanning, scanError, selectedPaths, panelWidthMm, panelHeightMm,
                 isGenerating, lastGenerationKey, showPreviewModal, scanCall, generateCall>>
  /\ UNCHANGED <<dropCount, downloadCall, otherThanPage>>

\* confirmExport up to its await; one download is followed at a time.
ConfirmExport ==
  /\ showExportModal
  /\ ~downloadCall.active
  /\ IF pendingExportPanels.isNull THEN UNCHANGED downloadCall
     ELSE downloadCall' = DownloadOf(pendingExportPanels)
  /\ UNCHANGED <<scan, isScanning, scanError, selectedPaths, panelWidthMm, panelHeightMm,
                 isGenerating, genError, generatedPanels, lastGenerationKey, isExporting,
                 exportMessage, showExportModal, pendingExportPanels, showPreviewModal,
                 scanCall, generateCall, exportCall>>
  /\ UNCHANGED <<dropCount, otherThanPage>>

\* The download awaited by confirmExport settles: it succeeds or throws.
DownloadSettles ==
  /\ downloadCall.active
  /\ downloadCall' = NoDownload
  /\ \/ /\ exportMessage' = "Downloaded"
        /\ showExportModal' = FALSE
        /\ pendingExportPanels' = NullPanels
        /\ UNCHANGED genError
     \/ /\ genError' = "The download failed"
        /\ UNCHANGED <<exportMessage, showExportModal, pendingExportPanels>>
  /\ isExporting' = FALSE
  /\ UNCHANGED <<scan, isScanning, scanError, selectedPaths, panelWidthMm, panelHeightMm,
                 isGenerating, generatedPanels, lastGenerationKey, showPreviewModal,
                 scanCall, generateCall, exportCall>>
  /\ UNCHANGED <<dropCount, otherThanPage>>

\* cancelExport from the export modal.
CancelExport ==
  /\ showExportModal
  /\ showExportModal' = FALSE
  /\ pendingExportPanels' = NullPanels
  /\ isExporting' = FALSE
  /\ exportMessage' = "Export cancelled."
  /\ UNCHANGED <<scan, isScanning, scanError, selectedPaths, panelWidthMm, panelHeightMm,
                 isGenerating, genError, generatedPanels, lastGenerationKey,
                 showPreviewModal, scanCall, generateCall, exportCall>>
  /\ UNCHANGED <<dropCount, downloadCall, otherThanPage>>

\* The Close buttons of the preview modal.
ClosePreview ==
  /\ PreviewModalShown
  /\ showPreviewModal' = FALSE
  /\ UNCHANGED <<scan, isScanning, scanError, selectedPaths, panelWidthMm, panelHeightMm,
                 isGenerating, genError, generatedPanels, lastGenerationKey, isExporting,
                 exportMessage, showExportModal, pendingExportPanels, scanCall,
                 generateCall, exportCall>>
  /\ UNCHANGED <<dropCount, downloadCall, otherThanPage>>

PageNext ==
  \/ HandleDrop
  \/ ScanSettles
  \/ ToggleSelected
  \/ SetPanelWidth
  \/ SetPanelHeight
  \/ ClickPreview
  \/ GenerateSettles
  \/ ClickDownload
  \/ ClickDownloadAll
  \/ ExportSettles
  \/ ConfirmExport
  \/ DownloadSettles
  \/ CancelExport
  \/ ClosePreview

\* The page when folders of good files are dropped one after the other and
\* the panel width is 120 or 300.
FolderNext ==
  \/ DropFolder
  \/ ScanSettles
  \/ ToggleSelected
  \/ SetFittingWidth
  \/ ClickPreview
  \/ GenerateSettles
  \/ ClickDownload
  \/ ClickDownloadAll
  \/ ExportSettles
  \/ ConfirmExport
  \/ DownloadSettles
  \/ CancelExport
  \/ ClosePreview

(***************************************************************************)
(* Calls of the colour functions                                           *)
(***************************************************************************)

\* The colour tokens handed to the colour functions: #rrggbb and #rgb in
\* either case, the names of the namedColors table in either case, another
\* name, and rgb(r,g,b) with channels of 0 to 255.
ChannelValues == {0, 10, 11, 255}
HexDigits == {0, 10, 15}
Hex3Upper(r, g, b) == [Hex3(r, g, b) EXCEPT !.upper = TRUE]
ColorTokens ==
  {Hex6(r, g, b) : r \in ChannelValues, g \in ChannelValues, b \in {0, 255}}
    \cup {Hex6Upper(r, 0, 255) : r \in ChannelValues}
    \cup {Hex3(r, g, b) : r \in HexDigits, g \in {0, 11}, b \in {0, 12}}
    \cup {Hex3Upper(10, 11, 12)}
    \cup {Rgb(r, g, b) : r \in ChannelValues, g \in {0, 255}, b \in {0, 255}}
    \cup {Named(n) : n \in NamedColorNames}
    \cup {NamedUpper("blue"), NamedUpper("none"), Named("purple")}

ColorIdle ==
  /\ colorA = Named("black")
  /\ colorB = Named("black")
  /\ colorNormalized = NoColor
  /\ colorMatched = FALSE
  /\ colorPhase = "idle"

\* A caller holds two colour tokens.
ColorInit ==
  /\ colorA \in ColorTokens
  /\ colorB \in ColorTokens
  /\ colorNormalized = NoColor
  /\ colorMatched = FALSE
  /\ colorPhase = "input"

\* normalizeColorToHex(colorA) runs.
NormalizeCall ==
  /\ colorPhase = "input"
  /\ colorNormalized' = normalizeColorToHex(colorA)
  /\ colorPhase' = "normalized"
  /\ UNCHANGED <<colorA, colorB, colorMatched>>
  /\ UNCHANGED otherThanColor

\* colorsMatch(colorA, colorB) runs.
MatchCall ==
  /\ colorPhase = "input"
  /\ colorMatched' = colorsMatch(colorA, colorB)
  /\ colorPhase' = "matched"
  /\ UNCHANGED <<colorA, colorB, colorNormalized>>
  /\ UNCHANGED otherThanColor

ColorNext ==
  \/ NormalizeCall
  \/ MatchCall

(***************************************************************************)
(* Specifications                                                          *)
(***************************************************************************)

\* Each specification runs one part of the program; the state of the other
\* parts stays as constructed.
GridStart ==
  /\ GridInit /\ ParseIdle /\ ProcIdle /\ BuildIdle /\ PageInit
  /\ ColorIdle /\ BackerIdle /\ RunIdle
  /\ FitIdle
  /\ HoleIdle
  /\ StepIdle
  /\ ComposeIdle
SpecGrid == GridStart /\ [][GridCall]_vars

CountStart ==
  /\ CountInit /\ ParseIdle /\ ProcIdle /\ BuildIdle /\ PageInit
  /\ ColorIdle /\ BackerIdle /\ RunIdle
  /\ FitIdle
  /\ HoleIdle
  /\ StepIdle
  /\ ComposeIdle
SpecCount == CountStart /\ [][CountCall]_vars

ParseStart ==
  /\ ParseInit /\ GridIdle /\ ProcIdle /\ BuildIdle /\ PageInit
  /\ ColorIdle /\ BackerIdle /\ RunIdle
  /\ FitIdle
  /\ HoleIdle
  /\ StepIdle
  /\ ComposeIdle
SpecParse == ParseStart /\ [][ParseCall]_vars

LayersStart ==
  /\ ProcInit /\ GridIdle /\ ParseIdle /\ BuildIdle /\ PageInit
  /\ ColorIdle /\ BackerIdle /\ RunIdle
  /\ FitIdle
  /\ HoleIdle
  /\ StepIdle
  /\ ComposeIdle
SpecLayers == LayersStart /\ [][ProcCall]_vars

BuildStart ==
  /\ BuildInit /\ GridIdle /\ ParseIdle /\ ProcIdle /\ PageInit
  /\ ColorIdle /\ BackerIdle /\ RunIdle
  /\ FitIdle
  /\ HoleIdle
  /\ StepIdle
  /\ ComposeIdle
SpecBuild == BuildStart /\ [][BuildCall]_vars

PageStart ==
  /\ PageInit /\ GridIdle /\ ParseIdle /\ ProcIdle /\ BuildIdle
  /\ ColorIdle /\ BackerIdle /\ RunIdle
  /\ FitIdle
  /\ HoleIdle
  /\ StepIdle
  /\ ComposeIdle
SpecPage == PageStart /\ [][PageNext]_vars
SpecFolders == PageStart /\ [][FolderNext]_vars

ColorStart ==
  /\ ColorInit /\ GridIdle /\ ParseIdle /\ ProcIdle /\ BuildIdle
  /\ PageInit /\ BackerIdle /\ RunIdle
  /\ FitIdle
  /\ HoleIdle
  /\ StepIdle
  /\ ComposeIdle
SpecColor == ColorStart /\ [][ColorNext]_vars

BackerStart ==
  /\ BackerInit /\ GridIdle /\ ParseIdle /\ ProcIdle /\ BuildIdle /\ PageInit /\ ColorIdle
  /\ RunIdle
  /\ FitIdle
  /\ HoleIdle
  /\ StepIdle
  /\ ComposeIdle
SpecBacker == BackerStart /\ [][BackerCall]_vars

RunStart ==
  /\ RunInit /\ GridIdle /\ ParseIdle /\ ProcIdle /\ BuildIdle /\ PageInit /\ ColorIdle
  /\ BackerIdle
  /\ FitIdle
  /\ HoleIdle
  /\ StepIdle
  /\ ComposeIdle
SpecRun == RunStart /\ [][RunNext]_vars

FitStart ==
  /\ FitInit
  /\ GridIdle /\ ParseIdle /\ ProcIdle /\ BuildIdle /\ PageInit
  /\ ColorIdle /\ BackerIdle /\ RunIdle
  /\ HoleIdle
  /\ StepIdle
  /\ ComposeIdle
SpecFit == FitStart /\ [][FitCall]_vars

HoleStart ==
  /\ HoleInit
  /\ GridIdle /\ ParseIdle /\ ProcIdle /\ BuildIdle /\ PageInit
  /\ ColorIdle /\ BackerIdle /\ RunIdle /\ FitIdle
  /\ StepIdle
  /\ ComposeIdle
SpecHole == HoleStart /\ [][HoleCall]_vars

StepStart ==
  /\ StepInit
  /\ GridIdle /\ ParseIdle /\ ProcIdle /\ BuildIdle /\ PageInit
  /\ ColorIdle /\ BackerIdle /\ RunIdle /\ FitIdle /\ HoleIdle
  /\ ComposeIdle
SpecStep == StepStart /\ [][StepNext]_vars

ComposeStart ==
  /\ ComposeInit
  /\ GridIdle /\ ParseIdle /\ ProcIdle /\ BuildIdle /\ PageInit
  /\ ColorIdle /\ BackerIdle /\ RunIdle /\ FitIdle /\ HoleIdle
  /\ StepIdle
SpecCompose == ComposeStart /\ [][ComposeCall]_vars

(***************************************************************************)
(* Claims on the grid layout engine                                        *)
(***************************************************************************)

\* q is the floor of num / step (step # 0), stated without dividing.
IsFloorOf(q, num, step) ==
  IF step > 0 THEN q * step <= num /\ num < (q + 1) * step
  ELSE q * step >= num /\ num > (q + 1) * step

C2_CapacityInvariant ==
  (gridPhase = "done" /\ gridLayout.returns) =>
    LET s == gridSettings
        g == gridLayout
    IN /\ g.capKind = "finite"
       /\ g.colsKind = "finite" /\ g.rowsKind = "finite"
       /\ g.capacityPerPanel = (IF g.cols > 0 /\ g.rows > 0 THEN g.cols * g.rows ELSE 0)
       /\ (\/ s.cellSizeMm <= 0
           \/ s.panelWidthMm <= 0
           \/ s.panelHeightMm <= 0
           \/ s.panelWidthMm - 2 * s.marginMm <= 0
           \/ s.panelHeightMm - 2 * s.marginMm <= 0) => g.capacityPerPanel = 0

\* C3: computePanelCount(n, capacity) is 0 when capacity <= 0 and
\* ceil(n / capacity) otherwise; (57,25) gives 3, (0,25) gives 0, (5,0) gives 0.
C3_PanelCountFormula ==
  countPhase = "done" =>
    LET n == countArgs[1]
        cap == countArgs[2]
    IN /\ cap <= 0 => countResult = 0
       /\ cap > 0 => (countResult * cap >= n /\ (countResult - 1) * cap < n)
       /\ countArgs = <<57, 25>> => countResult = 3
       /\ countArgs = <<0, 25>> => countResult = 0
       /\ countArgs = <<5, 0>> => countResult = 0

\* C3's case: 57 items at 25 per panel have been counted as 3 panels.
C3_Witness == countPhase = "done" /\ countArgs = <<57, 25>> /\ countResult = 3

(***************************************************************************)
(* Claims on the document parser                                           *)
(***************************************************************************)

\* The viewBox attribute holds exactly 4 finite numbers.
HoldsFourNumbers(vb) ==
  /\ ViewBoxTruthy(vb)
  /\ Len(vb.parts) = 4
  /\ \A i \in 1..4 : TokIsFinite(vb.parts[i])

\* C6: for every well-formed document, parseSvgString takes the viewBox
\* attribute when it holds exactly 4 finite numbers; otherwise (viewBox absent
\* or not 4 numbers) it takes (0,0,width,height) from the numeric width and
\* height attributes, unit suffixes stripped; otherwise (0,0,100,100).  Each
\* of width and height that is missing, not numeric or 0 stays at 100.
C6_ViewBoxResolutionOrder ==
  (parsePhase = "done" /\ parseDoc.wellFormed /\ parseDoc.hasSvg) =>
    LET vb == parseDoc.viewBox
        w == parseDoc.width
        h == parseDoc.height
        r == parseResult.viewBox
    IN /\ ~parseResult.threw
       /\ HoldsFourNumbers(vb) =>
            r = [x |-> TokNumber(vb.parts[1]), y |-> TokNumber(vb.parts[2]),
                 width |-> TokNumber(vb.parts[3]), height |-> TokNumber(vb.parts[4])]
       /\ ~HoldsFourNumbers(vb) =>
            /\ r.x = 0 /\ r.y = 0
            /\ r.width = (IF w.kind = "number" /\ w.value # 0 THEN w.value ELSE 100)
            /\ r.height = (IF h.kind = "number" /\ h.value # 0 THEN h.value ELSE 100)

(***************************************************************************)
(* Claims on the layer transform                                           *)
(***************************************************************************)

RECURSIVE ShapeList(_)
\* The shape elements of a document in document order.
ShapeList(nodes) ==
  IF nodes = << >> THEN << >>
  ELSE (IF Head(nodes).tag = "g" THEN Head(nodes).children ELSE <<Head(nodes)>>)
         \o ShapeList(Tail(nodes))

ShapeIds(nodes) == {ShapeList(nodes)[k].id : k \in 1..Len(ShapeList(nodes))}

C9_EmptyRulesRemoveAll ==
  (procPhase = "done" /\ ~procLayers.isNull /\ procLayers.list = << >>) =>
    ShapeList(procResult.nodes) = << >>

\* The rule C10 describes for an element: looked up by the resolved fill when
\* that is not none, else by the resolved stroke, and looked up again by the
\* stroke when the fill finds none and there is a stroke colour.
ClaimedRule(el, styleRules, layers) ==
  LET colors == getElementColors(el, styleRules)
      fillThere == HasValue(colors.fill) /\ ~IsNoneText(colors.fill)
      strokeThere == HasValue(colors.stroke) /\ ~IsNoneText(colors.stroke)
      byFill == IF fillThere THEN findLayerConfig(colors.fill, layers) ELSE NoLayer
      byStroke == IF strokeThere THEN findLayerConfig(colors.stroke, layers) ELSE NoLayer
  IN IF byFill.found THEN byFill ELSE byStroke

\* C10: in rule mode a shape element is kept only if a rule matches it and
\* that rule is not hidden; an element without a matching rule, or whose
\* rule is hidden, is absent from the output.
C10_KeptOnlyIfVisibleRule ==
  (procPhase = "done" /\ ~procLayers.isNull) =>
    \A k \in 1..Len(ShapeList(procDoc.nodes)) :
      LET el == ShapeList(procDoc.nodes)[k]
          rule == ClaimedRule(el, procDoc.styleRules, procLayers.list)
      IN (el.id \in ShapeIds(procResult.nodes))
           <=> (rule.found /\ rule.layer.visibility # "hidden")

(***************************************************************************)
(* Claims on the panel builder                                             *)
(***************************************************************************)

\* C4: a build that returns gives exactly panelCount documents and partitions
\* the selected list in order: the document of panel idx holds a content
\* group for exactly the items at positions [idx*capacity,
\* min(n, (idx+1)*capacity)), each at the grid placement of its index within
\* the panel, so every panel but the last holds exactly capacity items.
C4_PanelsPartitionSelection ==
  (buildPhase = "done" /\ ~buildResult.threw) =>
    LET n == Len(buildSelected)
        capacity == buildResult.capacityPerPanel
        panels == buildResult.panelSvgs
        placements == computeGridLayout(GridSettingsOf(buildSettings)).placements
    IN /\ Len(panels) = computePanelCount(n, capacity)
       /\ \A idx \in 0..(Len(panels) - 1) :
            LET lo == idx * capacity
                hi == Min(n, (idx + 1) * capacity)
                groups == panels[idx + 1].groups
            IN /\ Len(groups) = hi - lo
               /\ idx < Len(panels) - 1 => Len(groups) = capacity
               /\ \A i \in 1..(hi - lo) :
                    /\ groups[i].path = buildSelected[lo + i].path
                    /\ Len(placements) >= i
                    /\ groups[i].indexInPanel = placements[i].indexInPanel
                    /\ groups[i].x = placements[i].x
                    /\ groups[i].y = placements[i].y
                    /\ groups[i].size = placements[i].size

(***************************************************************************)
(* Claims on the generator page                                            *)
(***************************************************************************)

\* The capacity of the grid for the size settings a build call captured.
CapacityOf(call) == computeGridLayout(GridSettingsOf(call.settings)).capacityPerPanel

\* C5: generation is blocked when the size settings give a capacity <= 0:
\* no buildPanelSvgs call, from generatePanels or from exportPanels, is ever
\* started with settings of capacity <= 0, and while the current settings
\* give a capacity <= 0 the layout warning is not null.
C5_NoBuildWithoutCapacity ==
  /\ generateCall.active => CapacityOf(generateCall) > 0
  /\ exportCall.active => CapacityOf(exportCall) > 0
  /\ PageGrid(panelWidthMm, panelHeightMm).capacityPerPanel <= 0 =>
       LayoutWarning(panelWidthMm, panelHeightMm,
                     PageGrid(panelWidthMm, panelHeightMm).capacityPerPanel) # NoMessage

\* A build call whose selected list holds an asset that cannot be read or
\* parsed.
HasBadAsset(call) ==
  \E k \in 1..Len(call.selected) : ReadAndParse(call.fileMap, call.selected[k].path).threw

\* C7: when the build awaited by generatePanels settles and a selected asset
\* is malformed, has no svg root or cannot be read, the build has thrown and
\* the page is in the error state: genError set, generatedPanels null,
\* lastGenerationKey null, isGenerating false.
C7_BadAssetEndsInErrorState ==
  [][(generateCall.active /\ ~generateCall'.active /\ HasBadAsset(generateCall)) =>
       /\ buildPanelSvgs(generateCall.selected, generateCall.settings,
                         generateCall.fileMap).threw
       /\ genError' # NoMessage
       /\ generatedPanels'.isNull
       /\ lastGenerationKey'.isNull
       /\ ~isGenerating']_vars

\* The output node that came from the input element with this id.
OutputNode(id) ==
  LET out == ShapeList(procResult.nodes)
  IN out[CHOOSE k \in 1..Len(out) : out[k].id = id]

\* The colour the matched rule stands for: the fill when the rule was found
\* by the fill, else the stroke.
ClaimedPrimary(el, styleRules, layers) ==
  LET colors == getElementColors(el, styleRules)
  IN IF HasValue(colors.fill) /\ ~IsNoneText(colors.fill)
        /\ findLayerConfig(colors.fill, layers).found
     THEN colors.fill ELSE colors.stroke

\* targetColor as the specification states it: the rule's outputColor, else
\* #000000 for show-black, else the normalized primary colour.
ClaimedTarget(el, styleRules, layers) ==
  LET rule == ClaimedRule(el, styleRules, layers).layer
  IN IF rule.outputColor # NoColor THEN rule.outputColor
     ELSE IF rule.visibility = "show-black" THEN Hex6(0, 0, 0)
     ELSE normalizeColorToHex(ClaimedPrimary(el, styleRules, layers))

\* A node that had a stroke but no fill and is not a closed shape.
OpenStrokeOnly(el, styleRules) ==
  LET colors == getElementColors(el, styleRules)
  IN /\ ~(HasValue(colors.fill) /\ ~IsNoneText(colors.fill))
     /\ HasValue(colors.stroke) /\ ~IsNoneText(colors.stroke)
     /\ el.tag \notin {"circle", "ellipse", "rect", "polygon"}
     /\ ~(el.tag = "path" /\ el.closed)

\* The input elements matched by a visible rule of the given render mode.
RenderedBy(mode) ==
  {k \in 1..Len(ShapeList(procDoc.nodes)) :
     LET rule == ClaimedRule(ShapeList(procDoc.nodes)[k], procDoc.styleRules, procLayers.list)
     IN rule.found /\ rule.layer.visibility # "hidden" /\ rule.layer.renderMode = mode}

\* C11: a node matched by a visible rule with renderMode fill is in the output
\* with fill = targetColor and stroke = none, except a node that had a stroke
\* but no fill and is not a closed shape, which stays a visible stroke: fill =
\* none, stroke = targetColor, stroke-width = its original width or 0.5.
C11_FillModeRendering ==
  (procPhase = "done" /\ ~procLayers.isNull) =>
    \A k \in RenderedBy("fill") :
      LET el == ShapeList(procDoc.nodes)[k]
          colors == getElementColors(el, procDoc.styleRules)
          target == ClaimedTarget(el, procDoc.styleRules, procLayers.list)
      IN /\ el.id \in ShapeIds(procResult.nodes)
         /\ IF OpenStrokeOnly(el, procDoc.styleRules)
            THEN OutputNode(el.id).attr =
                   Paint(Named("none"), target,
                         IF colors.strokeWidth # "" THEN colors.strokeWidth ELSE "0.5")
            ELSE /\ OutputNode(el.id).attr.fill = target
                 /\ OutputNode(el.id).attr.stroke = Named("none")

\* C12: a node matched by a visible rule with renderMode stroke is in the
\* output with fill = none, stroke = targetColor and stroke-width = its
\* original resolved width when it had one, otherwise 1 when the node was
\* filled and 0.5 when it was only stroked.
C12_StrokeModeRendering ==
  (procPhase = "done" /\ ~procLayers.isNull) =>
    \A k \in RenderedBy("stroke") :
      LET el == ShapeList(procDoc.nodes)[k]
          colors == getElementColors(el, procDoc.styleRules)
          filled == HasValue(colors.fill) /\ ~IsNoneText(colors.fill)
      IN /\ el.id \in ShapeIds(procResult.nodes)
         /\ OutputNode(el.id).attr =
              Paint(Named("none"), ClaimedTarget(el, procDoc.styleRules, procLayers.list),
                    IF colors.strokeWidth # "" THEN colors.strokeWidth
                    ELSE IF filled THEN "1" ELSE "0.5")

\* C12's case: a filled node without a stroke width and a node that is only
\* stroked, without a width, have both been rendered by stroke-mode rules,
\* the first with width 1 and the second with width 0.5.
C12_Witness ==
  /\ procPhase = "done"
  /\ ~procLayers.isNull
  /\ \E k \in RenderedBy("stroke") :
       LET el == ShapeList(procDoc.nodes)[k]
       IN /\ HasFill(getElementColors(el, procDoc.styleRules))
          /\ getElementColors(el, procDoc.styleRules).strokeWidth = ""
          /\ el.id \in ShapeIds(procResult.nodes)
          /\ OutputNode(el.id).attr.strokeWidth = "1"
  /\ \E k \in RenderedBy("stroke") :
       LET el == ShapeList(procDoc.nodes)[k]
       IN /\ ~HasFill(getElementColors(el, procDoc.styleRules))
          /\ getElementColors(el, procDoc.styleRules).strokeWidth = ""
          /\ el.id \in ShapeIds(procResult.nodes)
          /\ OutputNode(el.id).attr.strokeWidth = "0.5"

\* C13: the layer transform is idempotent: applied with the same rules (or
\* null) to its own output, which is inlined, class-free and without a style
\* block, it removes no node and changes no fill, stroke or stroke-width.
C13_TransformIdempotent ==
  (procPhase = "done" /\ ~procResult.raw) =>
    LayerTransform(procResult.nodes, << >>, procLayers) = procResult.nodes

\* A paint property (fill, stroke, strokeWidth) has a value.
Present(prop, v) == IF prop = "strokeWidth" THEN v # "" ELSE v # NoColor

\* The classes of the element, by position, whose rule in the style map sets
\* the property.
ClassesGiving(el, styleRules, prop) ==
  {k \in 1..Len(el.classes) :
     /\ StyleRuleIndex(styleRules, el.classes[k]) # 0
     /\ Present(prop, styleRules[StyleRuleIndex(styleRules, el.classes[k])][prop])}

\* The property resolved by precedence: the inline style value if present,
\* else the value of the element's class rules (the last class that sets
\* it), else the direct attribute.
ResolvedByPrecedence(el, styleRules, prop) ==
  IF Present(prop, el.style[prop]) THEN el.style[prop]
  ELSE IF ClassesGiving(el, styleRules, prop) # {}
  THEN LET giving == ClassesGiving(el, styleRules, prop)
           last == CHOOSE k \in giving : \A j \in giving : j <= k
       IN styleRules[StyleRuleIndex(styleRules, el.classes[last])][prop]
  ELSE el.attr[prop]

\* C14: for every element and independently for fill, stroke and
\* stroke-width, style resolution gives the inline style value if present,
\* else the value from the element's class rules, else the direct attribute;
\* it is what passthrough mode writes on the element, and it is the same
\* when the element stands alone in a document with the same style map.
C14_StylePrecedence ==
  procPhase = "done" =>
    \A k \in 1..Len(ShapeList(procDoc.nodes)) :
      \A prop \in {"fill", "stroke", "strokeWidth"} :
        LET el == ShapeList(procDoc.nodes)[k]
            resolved == ResolvedByPrecedence(el, procDoc.styleRules, prop)
        IN /\ getElementColors(el, procDoc.styleRules)[prop] = resolved
           /\ procLayers.isNull => OutputNode(el.id).attr[prop] = resolved
           /\ LayerTransform(<<el>>, procDoc.styleRules, NullLayers)[1].attr[prop] = resolved

\* C14's case: an element with a fill in its inline style, in its class rule
\* and as direct attribute, all different, and a stroke in its class rule and
\* as direct attribute, has gone through passthrough mode and carries the
\* inline fill and the stroke of its class rule.
C14_Witness ==
  /\ procPhase = "done"
  /\ procLayers.isNull
  /\ \E k \in 1..Len(ShapeList(procDoc.nodes)) :
       LET el == ShapeList(procDoc.nodes)[k]
       IN /\ el.style.fill = Red
          /\ el.attr.fill = Green
          /\ el.attr.stroke = Black
          /\ ClassesGiving(el, procDoc.styleRules, "fill") # {}
          /\ ClassesGiving(el, procDoc.styleRules, "stroke") # {}
          /\ OutputNode(el.id).attr.fill = Red
          /\ OutputNode(el.id).attr.stroke = BlueUpper

(***************************************************************************)
(* Claims on the colour functions                                          *)
(***************************************************************************)

\* A supported colour token: 3- or 6-digit hex, a name of the fixed set, or
\* rgb(r,g,b).
SupportedToken(c) ==
  c.kind \in {"hex3", "hex6", "rgb"} \/ (c.kind = "name" /\ c.text \in NamedColorNames)

\* A canonical lowercase 6-digit hex colour #rrggbb.
CanonicalHex(c) ==
  /\ c.kind = "hex6"
  /\ ~c.upper
  /\ c.r \in 0..255 /\ c.g \in 0..255 /\ c.b \in 0..255

ChannelsWithin10(c1, c2) ==
  /\ c1.kind = "hex6" /\ c2.kind = "hex6"
  /\ c1.r - c2.r \in (0 - 10)..10
  /\ c1.g - c2.g \in (0 - 10)..10
  /\ c1.b - c2.b \in (0 - 10)..10

\* C16: colorsMatch(a, b) is true exactly when the normalized forms are equal
\* or every channel differs by at most 10: #000000 matches #0a0000 and does
\* not match #0b0000.
C16_MatchTolerance ==
  colorPhase = "matched" =>
    /\ colorMatched <=>
         \/ normalizeColorToHex(colorA) = normalizeColorToHex(colorB)
         \/ ChannelsWithin10(normalizeColorToHex(colorA), normalizeColorToHex(colorB))
    /\ (colorA = Hex6(0, 0, 0) /\ colorB = Hex6(10, 0, 0)) => colorMatched
    /\ (colorA = Hex6(0, 0, 0) /\ colorB = Hex6(11, 0, 0)) => ~colorMatched

\* C16's case: #000000 has been compared with #0a0000 and matches.
C16_Witness ==
  /\ colorPhase = "matched"
  /\ colorA = Hex6(0, 0, 0)
  /\ colorB = Hex6(10, 0, 0)
  /\ colorMatched

\* The cut line recorded before the layer transform of a backer call.
RecordedCut == detectCutLineBbox(backerDoc.nodes, backerDoc.styleRules)
\* A backer call is done on a document that went through the backer step:
\* the option is on, the markup parsed to an svg with a viewBox.
BackerRan ==
  /\ backerPhase = "done" /\ backerOptions.addRoundBacker
  /\ ~backerResult.raw /\ ~getSvgViewBox(backerDoc).isNull

\* C17: with the round backer on and a cut line found, the appended circle has
\* the recorded cut-line bbox width as its diameter (not the larger side) and
\* its centre at (bbox.x + width/2, bbox.y + height - diameter/2).
C17_BackerFromCutLine ==
  (BackerRan /\ ~RecordedCut.isNull) =>
    /\ backerResult.backer.present
    /\ 2 * backerResult.backer.r = RecordedCut.width
    /\ 2 * backerResult.backer.cx = 2 * RecordedCut.x + RecordedCut.width
    /\ 2 * backerResult.backer.cy =
         2 * RecordedCut.y + 2 * RecordedCut.height - RecordedCut.width
\* A cut line of bbox (0, 0, 40, 50) gave a circle of diameter 40 centred at
\* (20, 30).
C17_Witness ==
  /\ BackerRan
  /\ ~RecordedCut.isNull
  /\ RecordedCut.x = 0 /\ RecordedCut.y = 0
  /\ RecordedCut.width = 40 /\ RecordedCut.height = 50
  /\ backerResult.backer.present
  /\ backerResult.backer.r = 20 /\ backerResult.backer.cx = 20
  /\ backerResult.backer.cy = 30

\* The element of the backer document with the given id.
SourceOf(id) ==
  CHOOSE el \in {ShapeList(backerDoc.nodes)[i] : i \in 1..Len(ShapeList(backerDoc.nodes))} :
    el.id = id
\* The element's stroke, resolved in the source document, is the cut colour.
SourceStrokeIsCut(id) == IsCutColor(ResolvedStroke(SourceOf(id), backerDoc.styleRules))
\* The id of the element whose bbox was recorded as the cut line.
RecordedCutId ==
  WidestCut(QueryAll(backerDoc.nodes), backerDoc.styleRules, 1, NoCut).id

\* C18: with the round backer on and a cut line found, the output holds
\* neither the original cut-line element nor any other element whose stroke,
\* resolved in the source, matches #0000ff, whatever the layer configuration.
C18_CutLineRemoved ==
  (BackerRan /\ ~RecordedCut.isNull) =>
    \A id \in ShapeIds(backerResult.nodes) :
      id # RecordedCutId /\ ~SourceStrokeIsCut(id)

\* The viewBox the parser gives the backer document.
ParsedViewBox == parseSvgString(backerDoc).viewBox

\* C19: with the round backer on, processing an asset that parses appends a
\* backer circle; when no cut line is found the circle has a diameter of 95%
\* of the smaller viewBox side and is centred on the viewBox.
C19_FallbackBacker ==
  (/\ backerPhase = "done" /\ backerOptions.addRoundBacker
   /\ ~parseSvgString(backerDoc).threw) =>
    /\ ~backerResult.raw
    /\ backerResult.backer.present
    /\ RecordedCut.isNull =>
         /\ 200 * backerResult.backer.r =
              95 * Min(ParsedViewBox.width, ParsedViewBox.height)
         /\ 2 * backerResult.backer.cx = 2 * ParsedViewBox.x + ParsedViewBox.width
         /\ 2 * backerResult.backer.cy = 2 * ParsedViewBox.y + ParsedViewBox.height

\* C20: within one buildPanelSvgs run, which has one processing key, each
\* asset is read, parsed and processed at most once, however many times its
\* path is in the selected list.
C20_OncePerAssetAndKey ==
  (runPhase # "idle") =>
    \A p \in 1..MaxRunPaths :
      /\ runWork.reads[p] <= 1
      /\ runWork.parses[p] <= 1
      /\ runWork.processed[p] <= 1

\* The viewBox rectangle of the asset of a placed item.
ViewBoxRect(item) ==
  Box(parseSvgString(runFileMap[item.path].doc).viewBox.x,
      parseSvgString(runFileMap[item.path].doc).viewBox.y,
      parseSvgString(runFileMap[item.path].doc).viewBox.width,
      parseSvgString(runFileMap[item.path].doc).viewBox.height)
\* Measuring the content that is rendered for a placed item fails.
RenderedMeasureFails(item) ==
  measureInnerContentBounds(ViewBoxRect(item), item.content,
                            runFileMap[item.path].measurable).isNull

\* C21: when measuring the bounds of the rendered content fails, the item is
\* still placed (the run does not reject for it) and is fitted by the viewBox
\* rectangle of its asset.
C21_ViewBoxOnMeasureFailure ==
  \A k \in 1..Len(runPlaced) :
    RenderedMeasureFails(runPlaced[k]) =>
      runPlaced[k].bounds = ViewBoxRect(runPlaced[k])

(***************************************************************************)
(* Claims on the text fit                                                  *)
(***************************************************************************)

\* The input of the text fit call is degenerate.
FitDegenerate == fitText.length = 0 \/ fitBox.width <= 0 \/ fitBox.height <= 0

\* C22: on an empty text or a box without positive width and height,
\* calculateTextFit returns fontSize 12, x = box.x + box.width / 2 and
\* y = box.y + box.height, whatever the box size.
C22_DegenerateFallback ==
  (fitPhase = "done" /\ FitDegenerate) =>
    /\ fitResult.fontSize = [num |-> 12, den |-> 1]
    /\ fitResult.twiceX = 2 * fitBox.x + fitBox.width
    /\ fitResult.y = [num |-> fitBox.y + fitBox.height, den |-> 1]
\* A text that is not empty in a box of width 0 - 5 got the fallback.
C22_Witness ==
  /\ fitPhase = "done"
  /\ fitText.length = 8 /\ fitBox.width = 0 - 5 /\ fitBox.height = 8 /\ fitBox.x = 7
  /\ fitResult.fontSize = [num |-> 12, den |-> 1]
  /\ fitResult.twiceX = 9
  /\ fitResult.y = [num |-> 58, den |-> 1]

\* The width and height of the text at size 100: what the browser measures,
\* or the estimates 0.6 * 100 per character and 1.2 * 100.
RefWidth ==
  IF fitMetrics.valid /\ fitMetrics.width > 0 /\ fitMetrics.height > 0
  THEN fitMetrics.width ELSE 60 * fitText.length
RefHeight ==
  IF fitMetrics.valid /\ fitMetrics.width > 0 /\ fitMetrics.height > 0
  THEN fitMetrics.height ELSE 120
\* size = clamp(100 * min(0.99 * height / RefHeight, 0.99 * width / RefWidth), 1, 2000)
\* for a box of the given height.
IsClampedFit(size, height) ==
  \/ /\ 99 * height * RefWidth <= 99 * fitBox.width * RefHeight
     /\ \/ 99 * height < RefHeight /\ size = [num |-> 1, den |-> 1]
        \/ 99 * height > 2000 * RefHeight /\ size = [num |-> 2000, den |-> 1]
        \/ /\ RefHeight <= 99 * height /\ 99 * height <= 2000 * RefHeight
           /\ size.num * RefHeight = 99 * height * size.den
  \/ /\ 99 * height * RefWidth > 99 * fitBox.width * RefHeight
     /\ \/ 99 * fitBox.width < RefWidth /\ size = [num |-> 1, den |-> 1]
        \/ 99 * fitBox.width > 2000 * RefWidth /\ size = [num |-> 2000, den |-> 1]
        \/ /\ RefWidth <= 99 * fitBox.width /\ 99 * fitBox.width <= 2000 * RefWidth
           /\ size.num * RefWidth = 99 * fitBox.width * size.den
\* The text at the given size, its metrics linear in the size, is inside the box.
TextInsideBox(size) ==
  /\ size.num * RefWidth <= 100 * size.den * fitBox.width
  /\ size.num * RefHeight <= 100 * size.den * fitBox.height

\* C23: on input that is not degenerate the fontSize is
\* clamp(100 * min(0.99 * box.height / measuredHeight,
\* 0.99 * box.width / measuredWidth), 1, 2000), and the text at that size is
\* no wider and no higher than the box.
C23_FitNeverOverflows ==
  (fitPhase = "done" /\ ~FitDegenerate) =>
    /\ IsClampedFit(fitResult.fontSize, fitBox.height)
    /\ TextInsideBox(fitResult.fontSize)

\* The heights a box of the fixed width is compared at.
SmallerHeights == {h \in FitBoxHeights : h <= fitBox.height}

\* C24: for a fixed text, font and box width the fontSize does not decrease
\* when the box height grows, heights of 0 and less included: the fontSize
\* for every height below the one of the call is at most the one returned.
C24_MonotoneInHeight ==
  (fitPhase = "done") =>
    \A h \in SmallerHeights :
      ~FracLess(fitResult.fontSize,
                calculateTextFit(fitText, fitMetrics, [fitBox EXCEPT !.height = h]).fontSize)

(***************************************************************************)
(* Claims on the ornament hole removal                                     *)
(***************************************************************************)

\* The path elements of the document before the pass, and the element with
\* the same id after it.
HolePathsBefore ==
  {QueryAll(holeNodes)[i] : i \in 1..Len(QueryAll(holeNodes))}
AfterPass(el) ==
  CHOOSE r \in {QueryAll(holeResult)[i] : i \in 1..Len(QueryAll(holeResult))} : r.id = el.id
\* The candidate subpaths, as <<path id, index>>, and their scores.
CandidatePlaces ==
  UNION {{<<el.id, i>> : i \in {j \in 1..Len(el.subpaths) :
                                  IsHoleSubpath(el.subpaths[j], HoleViewBox)}} :
           el \in {p \in HolePathsBefore : Len(p.subpaths) >= 2}}
ScoreAt(place) ==
  HoleScore((CHOOSE el \in HolePathsBefore : el.id = place[1]).subpaths[place[2]].bbox,
            HoleViewBox,
            Greatest({(CHOOSE el \in HolePathsBefore : el.id = place[1]).subpaths[place[2]]
                        .bbox.width,
                      (CHOOSE el \in HolePathsBefore : el.id = place[1]).subpaths[place[2]]
                        .bbox.height}),
            24, 5)
\* The subpaths of a path without those at the chosen places, in their order.
Without(el, chosen) ==
  [k \in 1..Cardinality({i \in 1..Len(el.subpaths) : <<el.id, i>> \notin chosen}) |->
     el.subpaths[CHOOSE i \in 1..Len(el.subpaths) :
                   /\ <<el.id, i>> \notin chosen
                   /\ Cardinality({j \in 1..i : <<el.id, j>> \notin chosen}) = k]]
\* chosen are lowest-scoring candidates, 3 of them or all when there are fewer.
IsLowestChoice(chosen) ==
  /\ Cardinality(chosen) = Min(3, Cardinality(CandidatePlaces))
  /\ \A r \in chosen : \A c \in CandidatePlaces \ chosen : ~FracLess(ScoreAt(c), ScoreAt(r))

\* C26: the compound-path pass removes exactly the (at most 3) lowest-scoring
\* candidate subpaths over all paths: every path is left with its original
\* subpaths without the chosen ones, in their original order, so a path with
\* fewer than 2 subpaths and every subpath that is no candidate stay.
C26_LowestThreeExcised ==
  (holePhase = "done") =>
    \E chosen \in SUBSET CandidatePlaces :
      /\ IsLowestChoice(chosen)
      /\ \A el \in HolePathsBefore : AfterPass(el).subpaths = Without(el, chosen)
\* Five candidates in two paths: three were removed, two of them from one
\* path whose later subpath stays.
C26_Witness ==
  /\ holePhase = "done"
  /\ Cardinality(CandidatePlaces) = 5
  /\ \E el \in HolePathsBefore :
       /\ Len(el.subpaths) = 3 /\ Len(AfterPass(el).subpaths) = 1
       /\ AfterPass(el).subpaths[1] = el.subpaths[2]
  /\ \E el \in HolePathsBefore :
       Len(el.subpaths) = 2 /\ Len(AfterPass(el).subpaths) = 1

\* The place of a step in the order hole, cut-line bbox, filtering, backer,
\* cover.
StepRank(step) ==
  CASE step = "hole" -> 1 [] step = "cut" -> 2 [] step = "filter" -> 3
    [] step = "backer" -> 4 [] step = "cover" -> 5
StepsDone == {stepLog[i].step : i \in 1..Len(stepLog)}
\* The elements the cut line is looked for in: those of the source once the
\* ornament hole is out, when hole removal applies.
NodesAtCut ==
  IF stepOptions.removeOrnamentHole /\ ~getSvgViewBox(stepDoc).isNull
  THEN removeOrnamentHoleIfFound(stepDoc.nodes, getSvgViewBox(stepDoc))
  ELSE stepDoc.nodes
\* The cut lines among them, by the stroke that the style block, the class
\* and the attributes give.
CutLinesAtCut ==
  {k \in 1..Len(QueryAll(NodesAtCut)) :
     /\ QueryAll(NodesAtCut)[k].tag \in {"circle", "ellipse", "path"}
     /\ IsCutColor(ResolvedStroke(QueryAll(NodesAtCut)[k], stepDoc.styleRules))
     /\ ~QueryAll(NodesAtCut)[k].bbox.isNull
     /\ QueryAll(NodesAtCut)[k].bbox.width > 0}
IdsNow == {QueryAll(stepNodes)[k].id : k \in 1..Len(QueryAll(stepNodes))}

\* C25: processLayersForPanel does its steps in the order hole removal,
\* cut-line bbox, filtering, backer, cover; the hole step and the cut-line
\* step see the document with its styles intact; the recorded bbox is that
\* of the widest cut line present before filtering, and the backer is made
\* from it whatever filtering removed.
C25_StepOrder ==
  /\ \A i \in 1..Len(stepLog) : \A j \in 1..Len(stepLog) :
       i < j => StepRank(stepLog[i].step) < StepRank(stepLog[j].step)
  /\ \A i \in 1..Len(stepLog) :
       stepLog[i].step \in {"hole", "cut", "filter"} => stepLog[i].styled
  /\ "cut" \in StepsDone =>
       /\ stepCut.isNull <=> CutLinesAtCut = {}
       /\ \A k \in CutLinesAtCut : QueryAll(NodesAtCut)[k].bbox.width <= stepCut.width
       /\ ~stepCut.isNull =>
            \E k \in CutLinesAtCut :
              /\ QueryAll(NodesAtCut)[k].bbox.x = stepCut.x
              /\ QueryAll(NodesAtCut)[k].bbox.y = stepCut.y
              /\ QueryAll(NodesAtCut)[k].bbox.width = stepCut.width
              /\ QueryAll(NodesAtCut)[k].bbox.height = stepCut.height
  /\ ("backer" \in StepsDone /\ ~stepCut.isNull) =>
       /\ stepBacker.present
       /\ 2 * stepBacker.r = stepCut.width
       /\ 2 * stepBacker.cx = 2 * stepCut.x + stepCut.width
       /\ 2 * stepBacker.cy = 2 * stepCut.y + 2 * stepCut.height - stepCut.width
\* Hole removal, cut-line bbox, filtering and backer all ran; the layers
\* hide the cut colour, the cut line is gone and the backer has its width.
C25_Witness ==
  /\ stepPc = "done" /\ Len(stepLog) = 4
  /\ stepLayers = Layers(InvertedPreset)
  /\ ~stepCut.isNull /\ stepCut.width = 80
  /\ IdsNow = {}
  /\ stepBacker.present /\ stepBacker.r = 40

\* s times the whole b, and the comparisons of numbers that need not be whole.
Scaled(s, b) == Frac(s.num * b, s.den)
FracNotAbove(a, b) == ~FracLess(b, a)
Whole(n) == Frac(n, 1)
\* On one axis the item, from start over a length, lies within the art box
\* side from boxStart over boxLength with the same room before and after it.
CentredWithin(start, length, boxStart, boxLength) ==
  /\ FracNotAbove(boxStart, start)
  /\ FracNotAbove(FracAdd(start, length), FracAdd(boxStart, Whole(boxLength)))
  /\ FracAdd(FracAdd(start, start), length)
       = FracAdd(FracAdd(boxStart, boxStart), Whole(boxLength))
\* The scale is a number that fits the bounds into the art box and fills it
\* on at least one axis, and the transform puts the bounds centred in it.
FitsAndCentres(r) ==
  /\ r.transform.scale.kind = "finite"
  /\ r.transform.translateX.kind = "finite" /\ r.transform.translateY.kind = "finite"
  /\ FracNotAbove(Whole(0), r.transform.scale.value)
  /\ \/ Scaled(r.transform.scale.value, r.bounds.width) = Whole(r.artBox.width)
     \/ Scaled(r.transform.scale.value, r.bounds.height) = Whole(r.artBox.height)
  /\ CentredWithin(r.transform.translateX.value,
                   Scaled(r.transform.scale.value, r.bounds.width),
                   r.artBox.x, r.artBox.width)
  /\ CentredWithin(r.transform.translateY.value,
                   Scaled(r.transform.scale.value, r.bounds.height),
                   r.artBox.y, r.artBox.height)
  /\ r.transform.backX = 0 - r.bounds.x /\ r.transform.backY = 0 - r.bounds.y
\* The art box has the middle of the cell without its label strip.
ArtBoxCentred(r, cell, labelHeight) ==
  /\ FracAdd(FracAdd(r.artBox.x, r.artBox.x), Whole(r.artBox.width))
       = Whole(2 * cell.x + cell.size)
  /\ FracAdd(FracAdd(r.artBox.y, r.artBox.y), Whole(r.artBox.height))
       = Whole(2 * cell.y + (IF cell.size > labelHeight THEN cell.size - labelHeight ELSE 0))

\* C27: for every placed item the scale is uniform and fits the content
\* bounds inside the art box, touching it fully on at least one axis and
\* centred on the other, and the art box is centred in the art region of
\* the cell.
C27_FitAndCentre ==
  composePhase = "done" =>
    /\ FitsAndCentres(composeResult)
    /\ ArtBoxCentred(composeResult, composeCell, composeSettings.labelHeightMm)

\* The panels that buildPanelSvgs returns now for the selected files, the
\* size settings and the files of the scan.
CurrentBuild ==
  buildPanelSvgs(SelectedFiles(scan, selectedPaths),
                 PageBuildSettings(panelWidthMm, panelHeightMm), scan.fileMap)
\* A click on Preview would show the modal without a build.
PreviewReusesPanels ==
  /\ PreviewEnabled /\ ~scan.isNull
  /\ ~generatedPanels.isNull
  /\ lastGenerationKey = GenerationKey(SelectedFiles(scan, selectedPaths), panelWidthMm,
                                       panelHeightMm)

\* C28: whenever a click on Preview shows the modal without rebuilding, the
\* generatedPanels shown are what buildPanelSvgs returns for the current
\* selected items and the current settings.
C28_PreviewShowsCurrentBuild ==
  PreviewReusesPanels =>
    /\ ~CurrentBuild.threw
    /\ generatedPanels = SomePanels(CurrentBuild.panelSvgs)

\* A panel list state is null or holds the panels of a build from the files
\* of the current scan, for some selection and some panel size.
BuiltFromScan(p) ==
  \/ p.isNull
  \/ \E sel \in SUBSET (DOMAIN scan.fileMap) :
       \E w \in PageWidths \cup FittingWidths : \E h \in PageHeights :
       /\ ~buildPanelSvgs(SortedPaths(sel), PageBuildSettings(w, h), scan.fileMap).threw
       /\ p.panels
            = buildPanelSvgs(SortedPaths(sel), PageBuildSettings(w, h), scan.fileMap).panelSvgs

\* C29: once a scan has completed, generatedPanels and pendingExportPanels
\* hold only panels built from the files of the current scan, whatever build
\* was in flight when the folder was dropped.
C29_NoLeakAcrossScans ==
  ~scan.isNull => BuiltFromScan(generatedPanels) /\ BuiltFromScan(pendingExportPanels)

\* C30: the export modal is open only while pendingExportPanels is a list
\* that is not empty, and when the modal is closed and no export build is in
\* flight isExporting is false, so that no ended export leaves the Download
\* button disabled.
C30_ExportModalConsistent ==
  /\ showExportModal =>
       ~pendingExportPanels.isNull /\ Len(pendingExportPanels.panels) > 0
  /\ (~showExportModal /\ ~exportCall.active) => ~isExporting
\* An export that ended with a failed download and then a cancel: the modal
\* is closed, nothing is pending and the Download button is enabled again.
C30_Witness ==
  /\ genError = "The download failed" /\ exportMessage = "Export cancelled."
  /\ ~showExportModal /\ pendingExportPanels.isNull
  /\ ~exportCall.active /\ ~isExporting /\ DownloadEnabled

====
